---- MODULE Spec2Model ----
(***************************************************************************)
(* Model of the hardened WeatherAPI proxy worker                           *)
(* (src/examples/weather-proxy-worker.ts): bearer check, path and endpoint *)
(* allow-list, query policy, signed-request verification with a replay     *)
(* cache, the two rate-limit backends and the upstream forwarder.          *)
(*                                                                         *)
(* Strings are sequences of one-character strings, so that length,         *)
(* prefix, slicing, concatenation and number parsing are computed and not  *)
(* assumed.                                                                *)
(***************************************************************************)
EXTENDS Integers, Sequences, FiniteSets, TLC

\* a missing value (an absent header, parameter or option); it has the shape
\* of a string so that it compares with strings
None == <<"<none>">>

(***************************************************************************)
(* Bounds of the model.                                                    *)
(***************************************************************************)
\* the clock runs over the instants around the first MaxWindows multiples
\* of the rate-limit window
MaxWindows == 1
\* the largest value a rate counter takes
MaxCount == 1
\* the windows the clock covers where signed requests are replayed
MaxSignedWindows == 3
\* the number of direct calls of the in-memory limiter
MaxCalls == 11
\* the largest count a rate counter reaches while two invocations interleave
MaxInFlight == 2
\* the largest count a rate counter reaches where the limits are reached
MaxRateCount == 11
\* the seconds past the maximum age of an OAuth state that the clock covers
MaxLateSec == 2
\* the windows and the calls over which the two limiters are compared
MaxEquivWindows == 2
MaxEquivCalls == 4
\* the windows and the requests over which one durable object is followed
MaxDoWindows == 2
MaxDoCalls == 3

(***************************************************************************)
(* String literals.                                                        *)
(***************************************************************************)
Rep(c, n) == [i \in 1..n |-> c]

S_Bearer == <<"B", "e", "a", "r", "e", "r", " ">>
S_default == <<"d", "e", "f", "a", "u", "l", "t">>
S_unknown == <<"u", "n", "k", "n", "o", "w", "n">>
S_true == <<"t", "r", "u", "e">>
S_Infinity == <<"I", "n", "f", "i", "n", "i", "t", "y">>
S_q == <<"q">>
S_days == <<"d", "a", "y", "s">>
S_key == <<"k", "e", "y">>
S_ip == <<"i", "p", ":">>
S_client == <<"c", "l", "i", "e", "n", "t", ":">>
S_GET == <<"G", "E", "T">>
S_json == <<".", "j", "s", "o", "n">>
S_current == <<"c", "u", "r", "r", "e", "n", "t">> \o S_json
S_forecast == <<"f", "o", "r", "e", "c", "a", "s", "t">> \o S_json
S_astronomy == <<"a", "s", "t", "r", "o", "n", "o", "m", "y">> \o S_json
S_history == <<"h", "i", "s", "t", "o", "r", "y">> \o S_json
S_future == <<"f", "u", "t", "u", "r", "e">> \o S_json
S_appjson == <<"a", "p", "p", "l", "i", "c", "a", "t", "i", "o", "n", "/", "j", "s", "o", "n">>
S_nostore == <<"n", "o", "-", "s", "t", "o", "r", "e">>

(***************************************************************************)
(* JavaScript numbers, as far as the worker uses them: NaN, the two        *)
(* infinities and finite decimals n/d with d a power of ten.               *)
(***************************************************************************)
NaN == [k |-> "nan"]
Infinity == [k |-> "inf"]
Fin(n, d) == [k |-> "fin", n |-> n, d |-> d]
Int2Num(i) == Fin(i, 1)

IsDigit(c) == c \in {"0", "1", "2", "3", "4", "5", "6", "7", "8", "9"}

DigitVal(c) ==
  CASE c = "0" -> 0 [] c = "1" -> 1 [] c = "2" -> 2 [] c = "3" -> 3
    [] c = "4" -> 4 [] c = "5" -> 5 [] c = "6" -> 6 [] c = "7" -> 7
    [] c = "8" -> 8 [] c = "9" -> 9

AllDigits(s) == \A i \in 1..Len(s) : IsDigit(s[i])

RECURSIVE DecValue(_)
DecValue(s) ==
  IF s = <<>> THEN 0
  ELSE 10 * DecValue(SubSeq(s, 1, Len(s) - 1)) + DigitVal(s[Len(s)])

RECURSIVE Pow10(_)
Pow10(n) == IF n = 0 THEN 1 ELSE 10 * Pow10(n - 1)

\* Number(s) for a string s of the alphabet used here: the empty string is
\* 0, "Infinity" is infinite, an optionally signed decimal with at most one
\* point and at least one digit is that decimal, everything else is NaN.
Number(s) ==
  IF s = <<>> THEN Fin(0, 1)
  ELSE IF s = S_Infinity THEN Infinity
  ELSE
    LET neg == s[1] = "-"
        body == IF neg THEN Tail(s) ELSE s
        dots == {i \in 1..Len(body) : body[i] = "."}
        dot == IF dots = {} THEN Len(body) + 1 ELSE CHOOSE i \in dots : TRUE
        ip == SubSeq(body, 1, dot - 1)
        fp == SubSeq(body, dot + 1, Len(body))
        n == DecValue(ip) * Pow10(Len(fp)) + DecValue(fp)
    IN  IF /\ Cardinality(dots) <= 1
           /\ AllDigits(ip)
           /\ AllDigits(fp)
           /\ Len(ip) + Len(fp) >= 1
        THEN Fin(IF neg THEN 0 - n ELSE n, Pow10(Len(fp)))
        ELSE NaN

NumberIsFinite(x) == x.k = "fin"

\* x < i and x > i for a number x and an integer i; comparisons with NaN
\* are false
NumLT(x, i) == x.k = "fin" /\ x.n < i * x.d
NumGT(x, i) == \/ x.k = "inf"
               \/ x.k = "fin" /\ x.n > i * x.d

\* truthiness of a number: 0 and NaN are falsy
NumTruthy(x) == ~(x.k = "nan" \/ (x.k = "fin" /\ x.n = 0))

\* Math.max(i, x) and Math.floor(x / 2)
MathMax(i, x) == IF x.k = "nan" THEN NaN
                 ELSE IF NumGT(x, i) THEN x ELSE Int2Num(i)
FloorHalf(x) == IF x.k = "fin" THEN Int2Num(x.n \div (2 * x.d)) ELSE x

\* String(i) for an integer i
RECURSIVE NatToStr(_)
NatToStr(n) ==
  LET d == <<"0", "1", "2", "3", "4", "5", "6", "7", "8", "9">>
  IN  IF n < 10 THEN <<d[n + 1]>> ELSE NatToStr(n \div 10) \o <<d[(n % 10) + 1]>>
IntToStr(i) == IF i < 0 THEN <<"-">> \o NatToStr(0 - i) ELSE NatToStr(i)

(***************************************************************************)
(* Program constants.                                                      *)
(***************************************************************************)
WindowMs == 60000
QMaxLen == 120
DaysMin == 1
DaysMax == 10
FreshnessSec == 90
NonceTtlSec == 120
LimitFloor == 10
DefaultLimit == 120
DoLimitFloor == 1

ALLOWED_ENDPOINTS == {S_current, S_forecast, S_astronomy, S_history, S_future}
Prefix == <<"/", "w", "e", "a", "t", "h", "e", "r", "a", "p", "i", "/">>

(***************************************************************************)
(* Small helpers of the language and the platform.                         *)
(***************************************************************************)
\* a value is truthy unless it is missing or the empty string
Truthy(v) == v # None /\ v # <<>>
\* v || d
OrElse(v, d) == IF Truthy(v) THEN v ELSE d

LowerChar(c) ==
  CASE c = "T" -> "t" [] c = "R" -> "r" [] c = "U" -> "u" [] c = "E" -> "e"
    [] c = "F" -> "f" [] c = "A" -> "a" [] c = "L" -> "l" [] c = "S" -> "s"
    [] OTHER -> c
toLowerCase(s) == [i \in 1..Len(s) |-> LowerChar(s[i])]

toBool(v) == toLowerCase(OrElse(v, <<>>)) = S_true

startsWith(s, p) == Len(s) >= Len(p) /\ SubSeq(s, 1, Len(p)) = p
slice(s, n) == SubSeq(s, n + 1, Len(s))

MapSet(m, k, v) == [x \in DOMAIN m \cup {k} |-> IF x = k THEN v ELSE m[x]]
MapHas(m, k) == k \in DOMAIN m

\* URLSearchParams: a sequence of <<name, value>> pairs
ParamsGet(params, name) ==
  LET idx == {i \in 1..Len(params) : params[i][1] = name}
  IN  IF idx = {} THEN None
      ELSE params[CHOOSE i \in idx : \A j \in idx : i <= j][2]

\* URLSearchParams.set: the first pair of that name takes the value and the
\* other pairs of that name are removed; a new name is appended
ParamsSet(params, name, value) ==
  LET idx == {i \in 1..Len(params) : params[i][1] = name}
      first == CHOOSE i \in idx : \A j \in idx : i <= j
      keep == [i \in 1..Len(params) |-> params[i][1] # name \/ i = first]
      F[i \in 0..Len(params)] ==
        IF i = 0 THEN <<>>
        ELSE IF ~keep[i] THEN F[i - 1]
        ELSE IF i = first THEN Append(F[i - 1], <<name, value>>)
        ELSE Append(F[i - 1], params[i])
  IN  IF idx = {} THEN Append(params, <<name, value>>) ELSE F[Len(params)]

\* url.search: empty for no parameters, else "?" and the pairs joined by "&"
RECURSIVE JoinPairs(_)
JoinPairs(params) ==
  IF params = <<>> THEN <<>>
  ELSE LET p == params[1]
           rest == JoinPairs(Tail(params))
       IN  p[1] \o <<"=">> \o p[2] \o (IF rest = <<>> THEN <<>> ELSE <<"&">> \o rest)
Search(params) == IF params = <<>> THEN <<>> ELSE <<"?">> \o JoinPairs(params)

\* HMAC-SHA256 as an ideal keyed function of (secret, message), and the
\* unpadded base64url text of its bytes
HmacSha256(secret, msg) == <<"HMAC-SHA-256", secret, msg>>
toBase64Url(bytes) == <<"b64url", bytes>>

(***************************************************************************)
(* Pure functions of the worker.                                           *)
(***************************************************************************)
clientIp(request) == OrElse(request.ip, S_unknown)

validateQueryNoUpperBound(endpoint, params) ==
  LET q == OrElse(ParamsGet(params, S_q), <<>>)
      days == Number(OrElse(ParamsGet(params, S_days), <<"1">>))
  IN  IF Len(q) > QMaxLen THEN FALSE
      ELSE IF endpoint = S_forecast /\ (~NumberIsFinite(days) \/ NumLT(days, DaysMin))
           THEN FALSE
      ELSE TRUE

validateQuery(endpoint, params) ==
  LET q == OrElse(ParamsGet(params, S_q), <<>>)
      days == Number(OrElse(ParamsGet(params, S_days), <<"1">>))
  IN  IF Len(q) > QMaxLen THEN FALSE
      ELSE IF endpoint = S_forecast
                /\ (~NumberIsFinite(days) \/ NumLT(days, DaysMin) \/ NumGT(days, DaysMax))
           THEN FALSE
      ELSE TRUE

cleanNonceCacheFlipped(cache, nowSec) ==
  [k \in {x \in DOMAIN cache : ~(cache[x] >= nowSec)} |-> cache[k]]

cleanNonceCache(cache, nowSec) ==
  [k \in {x \in DOMAIN cache : ~(cache[x] <= nowSec)} |-> cache[k]]

NonceKey(clientId, nonce) == clientId \o <<":">> \o nonce
Payload(ts, nonce, clientId, pathAndQuery) ==
  ts \o <<".">> \o nonce \o <<".">> \o clientId \o <<".">> \o S_GET \o <<".">> \o pathAndQuery
ExpectedSig(secret, payload) == toBase64Url(HmacSha256(secret, payload))

isRateLimitedInMemoryShortWindow(rb, clock, key, maxPerMinute) ==
  IF ~MapHas(rb, key) \/ clock - rb[key].windowStart >= 1
  THEN [rb |-> MapSet(rb, key, [count |-> 1, windowStart |-> clock]), limited |-> FALSE]
  ELSE LET c == rb[key].count + 1
       IN  [rb |-> MapSet(rb, key, [count |-> c, windowStart |-> rb[key].windowStart]),
            limited |-> NumLT(maxPerMinute, c)]

isRateLimitedInMemoryOffByOne(rb, clock, key, maxPerMinute) ==
  IF ~MapHas(rb, key) \/ clock - rb[key].windowStart >= WindowMs
  THEN [rb |-> MapSet(rb, key, [count |-> 1, windowStart |-> clock]), limited |-> FALSE]
  ELSE LET c == rb[key].count + 1
       IN  [rb |-> MapSet(rb, key, [count |-> c, windowStart |-> rb[key].windowStart]),
            limited |-> ~NumGT(maxPerMinute, c)]

\* isRateLimitedInMemory on the bucket map rb at the given clock: the map after
\* the call and the value returned
isRateLimitedInMemory(rb, clock, key, maxPerMinute) ==
  IF ~MapHas(rb, key) \/ clock - rb[key].windowStart >= WindowMs
  THEN [rb |-> MapSet(rb, key, [count |-> 1, windowStart |-> clock]), limited |-> FALSE]
  ELSE LET c == rb[key].count + 1
       IN  [rb |-> MapSet(rb, key, [count |-> c, windowStart |-> rb[key].windowStart]),
            limited |-> NumLT(maxPerMinute, c)]

\* RateLimiterDO.fetch on the storage of the object named key at the given clock:
\* the counter written and the allowed flag of the reply.  The limit
\* arrives as JSON, where a non-finite number has become null.
DoFetch(storage, clock, key, limitPerMinute) ==
  LET data == IF MapHas(storage, key) THEN storage[key]
              ELSE [count |-> 0, windowStart |-> clock]
      next == IF clock - data.windowStart >= WindowMs
              THEN [count |-> 1, windowStart |-> clock]
              ELSE [count |-> data.count + 1, windowStart |-> data.windowStart]
      lim == IF NumberIsFinite(limitPerMinute) /\ NumTruthy(limitPerMinute)
             THEN MathMax(DoLimitFloor, limitPerMinute)
             ELSE Int2Num(DoLimitFloor)
  IN  [counter |-> next, allowed |-> ~NumLT(lim, next.count)]

MaxPerMinuteNoFloor(env) ==
  LET n == Number(OrElse(env.MAX_REQUESTS_PER_MINUTE, <<"1", "2", "0">>))
  IN  IF NumTruthy(n) THEN n ELSE Int2Num(DefaultLimit)

\* the two limits of the orchestrator
MaxPerMinute(env) ==
  LET n == Number(OrElse(env.MAX_REQUESTS_PER_MINUTE, <<"1", "2", "0">>))
  IN  MathMax(LimitFloor, IF NumTruthy(n) THEN n ELSE Int2Num(DefaultLimit))
ClientLimitFull(env) == MathMax(LimitFloor, MaxPerMinute(env))
ClientLimit(env) == MathMax(LimitFloor, FloorHalf(MaxPerMinute(env)))

\* the query of the outbound request
UpstreamParams(params, apiKey) ==
  LET F[i \in 0..Len(params)] ==
        IF i = 0 THEN <<>> ELSE ParamsSet(F[i - 1], params[i][1], params[i][2])
  IN  ParamsSet(F[Len(params)], S_key, apiKey)

(***************************************************************************)
(* State.                                                                  *)
(***************************************************************************)
VARIABLES
  env,        \* the worker's configuration (Env)
  now,        \* Date.now(), in milliseconds
  rateBucket, \* the in-memory rate counters: key -> [count, windowStart]
  nonceSeen,  \* the replay cache: clientId:nonce -> expiry second
  doCounter,  \* the stored "counter" of the RateLimiterDO named by a key
  doAlarm,    \* the alarm time of the RateLimiterDO named by a key
  pc,         \* where each invocation of fetch stands
  req,        \* the request of each invocation
  sigNow,     \* the local now of verifySignature of each invocation
  resp,       \* the response of each invocation
  outbound,   \* the upstream request of each invocation
  upresp,     \* the upstream's response to each invocation
  trace,      \* the checks each invocation has run, in order
  rpc,        \* how the last call to the durable object ended, per invocation
  log,        \* the direct calls of the in-memory limiter: time, limit, result
  consulted,  \* the limiter calls of each invocation: key, limit, result
  http,       \* the call of HttpClient.get in progress
  oauth,      \* the /callback request in progress
  wire,       \* the request WeatherApiService.weatherGet has built
  doCall      \* where each request to RateLimiterDO.fetch stands

vars == <<env, now, rateBucket, nonceSeen, doCounter, doAlarm, pc, req,
          sigNow, resp, outbound, upresp, trace, rpc, log, consulted, http, oauth, wire,
          doCall>>

\* the state of the collaborators of the gateway
others == <<http, oauth, wire, doCall>>

Procs == {"p1", "p2"}

EmptyMap == [x \in {} |-> 0]

NoReq == [auth |-> None, pathname |-> None, params |-> <<>>, ts |-> None,
          nonce |-> None, sig |-> None, clientId |-> None, ip |-> None]
NoResp == [status |-> 0, contentType |-> None, cacheControl |-> None, body |-> "-"]
NoOut == [sent |-> FALSE, endpoint |-> None, params |-> <<>>]
NoUp == [status |-> 0, contentType |-> None, cacheControl |-> None, body |-> "-"]

\* no request to the durable object
NoDoCall == [pc |-> "none", key |-> None, limit |-> NaN, now |-> 0, snap |-> EmptyMap]

\* no call of HttpClient.get, no /callback request
NoCall == [pc |-> "idle", url |-> None, timeoutMs |-> 0, status |-> 0, message |-> None]
NoCallback == [pc |-> "idle", handler |-> "none", state |-> [t |-> "none"], code |-> None,
               at |-> 0, status |-> 0, exchanged |-> FALSE, completed |-> FALSE,
               issued |-> {}]

S_textplain == <<"t", "e", "x", "t", "/", "p", "l", "a", "i", "n">>

\* new Response(msg, { status })
unauthorized == [status |-> 401, contentType |-> S_textplain, cacheControl |-> None,
                 body |-> "Unauthorized"]
badRequest(msg) == [status |-> 400, contentType |-> S_textplain, cacheControl |-> None,
                    body |-> msg]
tooManyRequests == [status |-> 429, contentType |-> S_textplain, cacheControl |-> None,
                    body |-> "Too Many Requests"]
\* the handler's promise rejects: an exception escaped fetch and the
\* platform answers with its own error page
Threw == [status |-> 500, contentType |-> None, cacheControl |-> None,
          body |-> "uncaught exception"]

NowSec == now \div 1000

(***************************************************************************)
(* verifySignature, in its two parts: up to the first await, and after the *)
(* HMAC has been computed.                                                 *)
(***************************************************************************)
\* Math.abs(i - x) > m for an integer i and a finite number x
AbsDiffGT(i, x, m) ==
  LET diff == i * x.d - x.n
  IN  (IF diff < 0 THEN 0 - diff ELSE diff) > m * x.d

StalePastOnly(nowS, tsNum) ==
  nowS * tsNum.d - tsNum.n > FreshnessSec * tsNum.d

\* line 104: the timestamp is outside the freshness window
Stale(nowS, tsNum) == AbsDiffGT(nowS, tsNum, FreshnessSec)

ClientIdOf(r) == OrElse(r.clientId, S_default)

\* lines 91-108: the value is "false" for an early return, "await" when the
\* call suspends on the HMAC; cache is the replay cache it leaves
VerifyEntry(e, r, cache, clock) ==
  LET clientId == ClientIdOf(r)
      nowS == clock \div 1000
      tsNum == Number(r.ts)
      cleaned == cleanNonceCache(cache, nowS)
  IN  IF ~Truthy(e.WEATHER_PROXY_SIGNING_SECRET)
      THEN [out |-> "false", cache |-> cache]
      ELSE IF ~Truthy(r.ts) \/ ~Truthy(r.nonce) \/ ~Truthy(r.sig)
      THEN [out |-> "false", cache |-> cache]
      ELSE IF Truthy(e.ALLOWED_PROXY_CLIENT_ID) /\ clientId # e.ALLOWED_PROXY_CLIENT_ID
      THEN [out |-> "false", cache |-> cache]
      ELSE IF ~NumberIsFinite(tsNum)
      THEN [out |-> "false", cache |-> cache]
      ELSE IF Stale(nowS, tsNum)
      THEN [out |-> "false", cache |-> cache]
      ELSE IF MapHas(cleaned, NonceKey(clientId, r.nonce))
      THEN [out |-> "false", cache |-> cleaned]
      ELSE [out |-> "await", cache |-> cleaned]

PathAndQuery(r) == r.pathname \o Search(r.params)

VerifyFinishForgets(e, r, cache, nowS) ==
  LET clientId == ClientIdOf(r)
      payload == Payload(r.ts, r.nonce, clientId, PathAndQuery(r))
      ok == r.sig = ExpectedSig(e.WEATHER_PROXY_SIGNING_SECRET, payload)
  IN  [ok |-> ok, cache |-> cache]

VerifyFinishRecordsAnyway(e, r, cache, nowS) ==
  LET clientId == ClientIdOf(r)
      payload == Payload(r.ts, r.nonce, clientId, PathAndQuery(r))
      ok == r.sig = ExpectedSig(e.WEATHER_PROXY_SIGNING_SECRET, payload)
  IN  [ok |-> ok, cache |-> MapSet(cache, NonceKey(clientId, r.nonce), nowS + NonceTtlSec)]

\* lines 110-122: ok and the replay cache after the call; nowS is the now
\* the call read before it suspended
VerifyFinish(e, r, cache, nowS) ==
  LET clientId == ClientIdOf(r)
      payload == Payload(r.ts, r.nonce, clientId, PathAndQuery(r))
      ok == r.sig = ExpectedSig(e.WEATHER_PROXY_SIGNING_SECRET, payload)
  IN  [ok |-> ok,
       cache |-> IF ok THEN MapSet(cache, NonceKey(clientId, r.nonce), nowS + NonceTtlSec)
                 ELSE cache]

(***************************************************************************)
(* The synchronous head of fetch, lines 161-175.                           *)
(***************************************************************************)
Endpoint(r) == slice(r.pathname, Len(Prefix))

\* line 162, lines 166 and 169, line 172
BearerOkAnyToken(e, r) == startsWith(OrElse(r.auth, <<>>), S_Bearer)
BearerOk(e, r) == OrElse(r.auth, <<>>) = S_Bearer \o e.WEATHER_PROXY_BEARER_TOKEN
PathOk(r) == startsWith(r.pathname, Prefix)
EndpointOkAnyJson(r) ==
  LET ep == Endpoint(r)
  IN  Len(ep) > Len(S_json) /\ SubSeq(ep, Len(ep) - Len(S_json) + 1, Len(ep)) = S_json
EndpointOk(r) == Endpoint(r) \in ALLOWED_ENDPOINTS
SigningRequiredWithSecret(e) ==
  toBool(e.REQUIRE_SIGNED_REQUESTS) /\ Truthy(e.WEATHER_PROXY_SIGNING_SECRET)
SigningRequired(e) == toBool(e.REQUIRE_SIGNED_REQUESTS)

FetchHeadSignatureFirst(e, r, cache, clock) ==
  LET ver == VerifyEntry(e, r, cache, clock)
  IN  IF ~BearerOk(e, r)
      THEN [next |-> "done", resp |-> unauthorized, cache |-> cache,
            trace |-> <<"bearer">>]
      ELSE IF ~PathOk(r)
      THEN [next |-> "done", resp |-> badRequest("Invalid path"), cache |-> cache,
            trace |-> <<"bearer", "path">>]
      ELSE IF ~EndpointOk(r)
      THEN [next |-> "done", resp |-> badRequest("Endpoint not allowed"), cache |-> cache,
            trace |-> <<"bearer", "path", "endpoint">>]
      ELSE IF SigningRequired(e) /\ ver.out = "false"
      THEN [next |-> "done", resp |-> unauthorized, cache |-> ver.cache,
            trace |-> <<"bearer", "path", "endpoint", "signature">>]
      ELSE IF ~validateQuery(Endpoint(r), r.params)
      THEN [next |-> "done", resp |-> badRequest("Query policy violation"), cache |-> ver.cache,
            trace |-> IF SigningRequired(e)
                      THEN <<"bearer", "path", "endpoint", "signature", "query">>
                      ELSE <<"bearer", "path", "endpoint", "query">>]
      ELSE IF SigningRequired(e)
      THEN [next |-> "sign", resp |-> NoResp, cache |-> ver.cache,
            trace |-> <<"bearer", "path", "endpoint", "signature", "query">>]
      ELSE [next |-> "limit", resp |-> NoResp, cache |-> cache,
            trace |-> <<"bearer", "path", "endpoint", "query">>]

\* the checks run before the first suspension, the response when one of
\* them fails, and the replay cache left behind
FetchHead(e, r, cache, clock) ==
  LET ver == VerifyEntry(e, r, cache, clock)
  IN  IF ~BearerOk(e, r)
      THEN [next |-> "done", resp |-> unauthorized, cache |-> cache,
            trace |-> <<"bearer">>]
      ELSE IF ~PathOk(r)
      THEN [next |-> "done", resp |-> badRequest("Invalid path"), cache |-> cache,
            trace |-> <<"bearer", "path">>]
      ELSE IF ~EndpointOk(r)
      THEN [next |-> "done", resp |-> badRequest("Endpoint not allowed"), cache |-> cache,
            trace |-> <<"bearer", "path", "endpoint">>]
      ELSE IF ~validateQuery(Endpoint(r), r.params)
      THEN [next |-> "done", resp |-> badRequest("Query policy violation"), cache |-> cache,
            trace |-> <<"bearer", "path", "endpoint", "query">>]
      ELSE IF SigningRequired(e)
      THEN IF ver.out = "false"
           THEN [next |-> "done", resp |-> unauthorized, cache |-> ver.cache,
                 trace |-> <<"bearer", "path", "endpoint", "query", "signature">>]
           ELSE [next |-> "sign", resp |-> NoResp, cache |-> ver.cache,
                 trace |-> <<"bearer", "path", "endpoint", "query", "signature">>]
      ELSE [next |-> "limit", resp |-> NoResp, cache |-> cache,
            trace |-> <<"bearer", "path", "endpoint", "query">>]

(***************************************************************************)
(* The rate-limit stage, lines 177-182.                                    *)
(***************************************************************************)
LimiterKey(stage, r) ==
  IF stage = "ip" THEN S_ip \o clientIp(r) ELSE S_client \o ClientIdOf(r)
LimiterLimit(e, stage) ==
  IF stage = "ip" THEN MaxPerMinute(e) ELSE ClientLimit(e)

\* the upstream request of lines 184-188
Upstream(e, r) ==
  [sent |-> TRUE, endpoint |-> Endpoint(r),
   params |-> UpstreamParams(r.params, e.WEATHER_API_KEY)]

\* one call of isRateLimitedGlobal as the orchestrator made it
Consult(key, limit, result) == [key |-> key, limit |-> limit, result |-> result]
\* the last call of a sequence of calls has returned
Answered(calls, result) == [calls EXCEPT ![Len(calls)].result = result]

CallLimiterIpKeyOnly(p, r, stage, cap) ==
  LET res == isRateLimitedInMemory(rateBucket, now, LimiterKey("ip", r),
                                   LimiterLimit(env, stage))
  IN  IF env.RATE_LIMITER
      THEN /\ rateBucket' = rateBucket
           /\ pc' = [pc EXCEPT ![p] = IF stage = "ip" THEN "ipCall" ELSE "clientCall"]
           /\ resp' = resp
           /\ consulted' = [consulted EXCEPT ![p] =
                 Append(@, Consult(LimiterKey(stage, r), LimiterLimit(env, stage), "pending"))]
      ELSE /\ res.rb[LimiterKey("ip", r)].count <= cap
           /\ rateBucket' = res.rb
           /\ consulted' = [consulted EXCEPT ![p] =
                 Append(@, Consult(LimiterKey(stage, r), LimiterLimit(env, stage),
                                   IF res.limited THEN "limited" ELSE "allowed"))]
           /\ IF res.limited
              THEN /\ pc' = [pc EXCEPT ![p] = "done"]
                   /\ resp' = [resp EXCEPT ![p] = tooManyRequests]
              ELSE /\ pc' = [pc EXCEPT ![p] = IF stage = "ip" THEN "ipOk" ELSE "clientOk"]
                   /\ resp' = resp

\* isRateLimitedGlobal is called for a stage: without the RATE_LIMITER
\* binding the in-memory limiter runs at once and the caller resumes with
\* its value; with it the call to the durable object is in flight.  cap
\* bounds the counters of the model: a call that would count past it waits.
CallLimiter(p, r, stage, cap) ==
  LET res == isRateLimitedInMemory(rateBucket, now, LimiterKey(stage, r),
                                   LimiterLimit(env, stage))
  IN  IF env.RATE_LIMITER
      THEN /\ rateBucket' = rateBucket
           /\ pc' = [pc EXCEPT ![p] = IF stage = "ip" THEN "ipCall" ELSE "clientCall"]
           /\ resp' = resp
           /\ consulted' = [consulted EXCEPT ![p] =
                 Append(@, Consult(LimiterKey(stage, r), LimiterLimit(env, stage), "pending"))]
      ELSE /\ res.rb[LimiterKey(stage, r)].count <= cap
           /\ rateBucket' = res.rb
           /\ consulted' = [consulted EXCEPT ![p] =
                 Append(@, Consult(LimiterKey(stage, r), LimiterLimit(env, stage),
                                   IF res.limited THEN "limited" ELSE "allowed"))]
           /\ IF res.limited
              THEN /\ pc' = [pc EXCEPT ![p] = "done"]
                   /\ resp' = [resp EXCEPT ![p] = tooManyRequests]
              ELSE /\ pc' = [pc EXCEPT ![p] = IF stage = "ip" THEN "ipOk" ELSE "clientOk"]
                   /\ resp' = resp

(***************************************************************************)
(* Inputs.                                                                 *)
(***************************************************************************)
Token == <<"t", "o", "k">>
ApiKey == <<"W", "K">>
Secret == <<"s", "e", "c">>
OtherSecret == <<"x">>
ClientA == <<"c", "1">>
N1 == <<"n", "1">>
N2 == <<"n", "2">>
Ip1 == <<"1", ".", "2">>
S_Denver == <<"D", "e", "n", "v", "e", "r">>
S_abc == <<"a", "b", "c">>
S_evil == <<"e", "v", "i", "l">>
S_TRUE == <<"T", "R", "U", "E">>
S_false == <<"f", "a", "l", "s", "e">>

\* the instants just before and at each multiple of the window
Times(windows) == {t \in {k * WindowMs - d : k \in 0..windows, d \in {0, 1}} : t >= 0}

\* what a client holding secret k sends for (ts, nonce, clientId) on a path
Envelope(k, ts, nonce, clientId, pq) ==
  [ts |-> ts, nonce |-> nonce, clientId |-> clientId,
   sig |-> ExpectedSig(k, Payload(ts, nonce, OrElse(clientId, S_default), pq))]
NoEnvelope == [ts |-> None, nonce |-> None, clientId |-> None, sig |-> None]

MkReq(auth, pathname, params, e, ip) ==
  [auth |-> auth, pathname |-> pathname, params |-> params, ts |-> e.ts,
   nonce |-> e.nonce, sig |-> e.sig, clientId |-> e.clientId, ip |-> ip]

AuthMenu == {None, S_Bearer \o Token, S_Bearer \o S_evil}
PathMenu == {Prefix \o S_current, Prefix \o S_forecast, Prefix \o S_evil \o S_json,
             <<"/", "v", "1", "/">> \o S_current}
QueryMenu ==
  {<<<<S_q, S_Denver>>>>,
   <<<<S_q, S_Denver>>, <<S_days, <<"1", "5">>>>>>,
   <<<<S_q, S_Denver>>, <<S_days, <<"1", "0">>>>>>,
   <<<<S_q, S_Denver>>, <<S_days, <<"2", ".", "5">>>>>>,
   <<<<S_q, S_Denver>>, <<S_days, <<"0">>>>>>,
   <<<<S_q, Rep("a", QMaxLen)>>>>,
   <<<<S_q, Rep("a", QMaxLen + 1)>>>>,
   <<<<S_key, S_evil>>, <<S_q, S_Denver>>>>,
   <<<<S_q, S_Denver>>, <<S_q, S_abc>>>>}

TsOffsets == {0 - FreshnessSec - 1, 0 - FreshnessSec, 0, FreshnessSec, FreshnessSec + 1}

\* the signature headers a request may carry at second s on a path
EnvelopeMenu(s, pq) ==
  {NoEnvelope}
  \cup {Envelope(Secret, IntToStr(s + d), N1, None, pq) : d \in TsOffsets}
  \cup {Envelope(Secret, IntToStr(s), N2, ClientA, pq),
        Envelope(OtherSecret, IntToStr(s), N1, None, pq),
        Envelope(Secret, S_abc, N1, None, pq),
        [Envelope(Secret, IntToStr(s), N1, None, pq) EXCEPT !.nonce = None]}

\* the request of a well-behaved client at second s
Signed(s, pth, q) == Envelope(Secret, IntToStr(s), N1, None, pth \o Search(q))
Q_Denver == <<<<S_q, S_Denver>>>>
Q_Days15 == <<<<S_q, S_Denver>>, <<S_days, <<"1", "5">>>>>>

\* the requests that may arrive at a clock: every authorization on every
\* path, every query on the two endpoints, every set of signature headers
\* on a well-formed request
Requests(clock) ==
  LET s == clock \div 1000
  IN  UNION {{MkReq(a, pth, q, e, None) :
                a \in AuthMenu, e \in {NoEnvelope, Signed(s, pth, q)}} :
             pth \in PathMenu, q \in {Q_Denver, Q_Days15}}
      \cup
      UNION {{MkReq(S_Bearer \o Token, pth, q, e, None) :
                e \in {NoEnvelope, Signed(s, pth, q)}} :
             pth \in {Prefix \o S_current, Prefix \o S_forecast}, q \in QueryMenu}
      \cup
      {MkReq(S_Bearer \o Token, Prefix \o S_forecast, Q_Denver, e, None) :
         e \in EnvelopeMenu(s, Prefix \o S_forecast \o Search(Q_Denver))}

\* what the upstream may answer
UpstreamMenu ==
  {[status |-> st, contentType |-> ct, cacheControl |-> cc, body |-> "upstream body"] :
     st \in {200, 503},
     ct \in {None, S_textplain},
     cc \in {None, <<"m", "a", "x", "-", "a", "g", "e", "=", "6", "0">>}}

\* the upstream's usual answer
UpstreamOk ==
  [status |-> 200, contentType |-> S_appjson, cacheControl |-> None, body |-> "upstream body"]

MkEnv(sec, acl, rsr, max, rl) ==
  [WEATHER_API_KEY |-> ApiKey,
   WEATHER_PROXY_BEARER_TOKEN |-> Token,
   WEATHER_PROXY_SIGNING_SECRET |-> sec,
   ALLOWED_PROXY_CLIENT_ID |-> acl,
   REQUIRE_SIGNED_REQUESTS |-> rsr,
   MAX_REQUESTS_PER_MINUTE |-> max,
   RATE_LIMITER |-> rl]

\* the deployments: signing off (with and without a secret), signing on with
\* a secret (any client, or one allow-listed client), signing on without a
\* secret, each with the in-memory limiter; signing off and signing on with
\* the durable object
EnvMenu ==
  {MkEnv(c[1], c[2], c[3], None, FALSE) :
     c \in {<<None, None, None>>, <<Secret, None, S_false>>,
            <<Secret, None, S_true>>, <<Secret, ClientA, S_TRUE>>,
            <<None, None, S_true>>}}
  \cup {MkEnv(None, None, None, None, TRUE), MkEnv(Secret, None, S_true, None, TRUE)}

(***************************************************************************)
(* Initial state: a fresh isolate, no request in flight.                   *)
(***************************************************************************)
InitState ==
  /\ now = 0
  /\ rateBucket = EmptyMap
  /\ nonceSeen = EmptyMap
  /\ doCounter = EmptyMap
  /\ doAlarm = EmptyMap
  /\ pc = [p \in Procs |-> "idle"]
  /\ req = [p \in Procs |-> NoReq]
  /\ sigNow = [p \in Procs |-> 0]
  /\ resp = [p \in Procs |-> NoResp]
  /\ outbound = [p \in Procs |-> NoOut]
  /\ upresp = [p \in Procs |-> NoUp]
  /\ trace = [p \in Procs |-> <<>>]
  /\ rpc = [p \in Procs |-> "none"]
  /\ log = <<>>
  /\ consulted = [p \in Procs |-> <<>>]
  /\ http = NoCall
  /\ oauth = NoCallback
  /\ wire = NoReq
  /\ doCall = [p \in Procs |-> NoDoCall]

Init == env \in EnvMenu /\ InitState

(***************************************************************************)
(* Actions.                                                                *)
(***************************************************************************)
\* the clock advances (a finished invocation is collected first: nothing of
\* it depends on the clock any more)
Tick(instants) ==
  /\ \A p \in Procs : pc[p] # "done"
  /\ \E t \in instants : t > now /\ now' = t
  /\ UNCHANGED <<log, rpc, env, rateBucket, nonceSeen, doCounter, doAlarm, pc, req,
                 sigNow, resp, outbound, upresp, trace, consulted, others>>

\* fetch is invoked with request r and runs up to its first suspension
FetchStart(p, r, cap) ==
  LET h == FetchHead(env, r, nonceSeen, now)
  IN  /\ pc[p] = "idle"
      /\ req' = [req EXCEPT ![p] = r]
      /\ nonceSeen' = h.cache
      /\ sigNow' = [sigNow EXCEPT ![p] = NowSec]
      /\ CASE h.next = "done" ->
                /\ pc' = [pc EXCEPT ![p] = "done"]
                /\ resp' = [resp EXCEPT ![p] = h.resp]
                /\ trace' = [trace EXCEPT ![p] = h.trace]
                /\ rateBucket' = rateBucket
                /\ consulted' = consulted
           [] h.next = "sign" ->
                /\ pc' = [pc EXCEPT ![p] = "sign"]
                /\ resp' = resp
                /\ trace' = [trace EXCEPT ![p] = h.trace]
                /\ rateBucket' = rateBucket
                /\ consulted' = consulted
           [] h.next = "limit" ->
                /\ CallLimiter(p, r, "ip", cap)
                /\ trace' = [trace EXCEPT ![p] = Append(h.trace, "ip")]
      /\ UNCHANGED <<log, rpc, env, now, doCounter, doAlarm, outbound, upresp, others>>

\* the HMAC is ready: verifySignature compares, records the nonce and returns
SignResume(p) ==
  LET v == VerifyFinish(env, req[p], nonceSeen, sigNow[p])
  IN  /\ pc[p] = "sign"
      /\ nonceSeen' = v.cache
      /\ IF v.ok
         THEN /\ pc' = [pc EXCEPT ![p] = "verified"]
              /\ resp' = resp
         ELSE /\ pc' = [pc EXCEPT ![p] = "done"]
              /\ resp' = [resp EXCEPT ![p] = unauthorized]
      /\ UNCHANGED <<log, rpc, env, now, rateBucket, doCounter, doAlarm, req, sigNow,
                     outbound, upresp, trace, consulted, others>>

\* fetch resumes after an accepted signature and asks the limiter for the IP
VerifiedResume(p, cap) ==
  /\ pc[p] = "verified"
  /\ CallLimiter(p, req[p], "ip", cap)
  /\ trace' = [trace EXCEPT ![p] = Append(@, "ip")]
  /\ UNCHANGED <<log, rpc, env, now, nonceSeen, doCounter, doAlarm, req, sigNow,
                 outbound, upresp, others>>

\* fetch resumes after the in-memory limiter allowed the IP
IpResume(p, cap) ==
  /\ pc[p] = "ipOk"
  /\ CallLimiter(p, req[p], "client", cap)
  /\ trace' = [trace EXCEPT ![p] = Append(@, "client")]
  /\ UNCHANGED <<log, rpc, env, now, nonceSeen, doCounter, doAlarm, req, sigNow,
                 outbound, upresp, others>>

\* fetch resumes after the in-memory limiter allowed the client, and forwards
ClientResume(p) ==
  /\ pc[p] = "clientOk"
  /\ pc' = [pc EXCEPT ![p] = "upstream"]
  /\ outbound' = [outbound EXCEPT ![p] = Upstream(env, req[p])]
  /\ trace' = [trace EXCEPT ![p] = Append(@, "forward")]
  /\ UNCHANGED <<log, rpc, env, now, rateBucket, nonceSeen, doCounter, doAlarm, req,
                 sigNow, resp, upresp, consulted, others>>

MapDel(m, k) == [x \in DOMAIN m \ {k} |-> m[x]]

\* the durable object answers a check call (or the call fails), and fetch
\* resumes with the outcome
DoRespond(p, outcome, cap) ==
  LET stage == IF pc[p] = "ipCall" THEN "ip" ELSE "client"
      key == LimiterKey(stage, req[p])
      d == DoFetch(doCounter, now, key, LimiterLimit(env, stage))
  IN  /\ pc[p] \in {"ipCall", "clientCall"}
      /\ CASE outcome = "ok" ->
                /\ d.counter.count <= cap
                /\ doCounter' = MapSet(doCounter, key, d.counter)
                /\ doAlarm' = MapSet(doAlarm, key, now + 2 * WindowMs)
                /\ IF ~d.allowed
                   THEN /\ pc' = [pc EXCEPT ![p] = "done"]
                        /\ resp' = [resp EXCEPT ![p] = tooManyRequests]
                        /\ consulted' = [consulted EXCEPT ![p] = Answered(@, "limited")]
                        /\ UNCHANGED <<outbound, trace>>
                   ELSE IF stage = "ip"
                   THEN /\ pc' = [pc EXCEPT ![p] = "clientCall"]
                        /\ trace' = [trace EXCEPT ![p] = Append(@, "client")]
                        /\ consulted' = [consulted EXCEPT ![p] =
                              Append(Answered(@, "allowed"),
                                     Consult(LimiterKey("client", req[p]),
                                             LimiterLimit(env, "client"), "pending"))]
                        /\ UNCHANGED <<resp, outbound>>
                   ELSE /\ pc' = [pc EXCEPT ![p] = "upstream"]
                        /\ outbound' = [outbound EXCEPT ![p] = Upstream(env, req[p])]
                        /\ trace' = [trace EXCEPT ![p] = Append(@, "forward")]
                        /\ consulted' = [consulted EXCEPT ![p] = Answered(@, "allowed")]
                        /\ UNCHANGED resp
           [] outcome = "status" ->
                /\ pc' = [pc EXCEPT ![p] = "done"]
                /\ resp' = [resp EXCEPT ![p] = tooManyRequests]
                /\ consulted' = [consulted EXCEPT ![p] = Answered(@, "limited")]
                /\ UNCHANGED <<doCounter, doAlarm, outbound, trace>>
           [] outcome = "error" ->
                /\ pc' = [pc EXCEPT ![p] = "done"]
                /\ resp' = [resp EXCEPT ![p] = Threw]
                /\ consulted' = [consulted EXCEPT ![p] = Answered(@, "threw")]
                /\ UNCHANGED <<doCounter, doAlarm, outbound, trace>>
      /\ rpc' = [rpc EXCEPT ![p] = outcome]
      /\ UNCHANGED <<log, env, now, rateBucket, nonceSeen, req, sigNow, upresp, others>>

\* RateLimiterDO.alarm of the object named key
Alarm(key) ==
  /\ MapHas(doAlarm, key)
  /\ doAlarm[key] <= now
  /\ doCounter' = MapDel(doCounter, key)
  /\ doAlarm' = MapDel(doAlarm, key)
  /\ UNCHANGED <<log, rpc, env, now, rateBucket, nonceSeen, pc, req, sigNow, resp,
                 outbound, upresp, trace, consulted, others>>

RelayUpstreamCaching(u) ==
  [status |-> u.status,
   contentType |-> OrElse(u.contentType, S_appjson),
   cacheControl |-> OrElse(u.cacheControl, S_nostore),
   body |-> u.body]

\* the Response of lines 189-195 for the upstream's answer u
Relay(u) ==
  [status |-> u.status,
   contentType |-> OrElse(u.contentType, S_appjson),
   cacheControl |-> S_nostore,
   body |-> u.body]

\* the upstream answers and fetch returns
UpstreamRespond(p, u) ==
  /\ pc[p] = "upstream"
  /\ pc' = [pc EXCEPT ![p] = "done"]
  /\ upresp' = [upresp EXCEPT ![p] = u]
  /\ resp' = [resp EXCEPT ![p] = Relay(u)]
  /\ UNCHANGED <<log, rpc, env, now, rateBucket, nonceSeen, doCounter, doAlarm, req,
                 sigNow, outbound, trace, consulted, others>>

\* the upstream cannot be reached: the global fetch rejects
UpstreamFail(p) ==
  /\ pc[p] = "upstream"
  /\ pc' = [pc EXCEPT ![p] = "done"]
  /\ resp' = [resp EXCEPT ![p] = Threw]
  /\ UNCHANGED <<log, rpc, env, now, rateBucket, nonceSeen, doCounter, doAlarm, req,
                 sigNow, outbound, upresp, trace, consulted, others>>

\* the invocation is over
Complete(p) ==
  /\ pc[p] = "done"
  /\ pc' = [pc EXCEPT ![p] = "idle"]
  /\ req' = [req EXCEPT ![p] = NoReq]
  /\ sigNow' = [sigNow EXCEPT ![p] = 0]
  /\ resp' = [resp EXCEPT ![p] = NoResp]
  /\ outbound' = [outbound EXCEPT ![p] = NoOut]
  /\ upresp' = [upresp EXCEPT ![p] = NoUp]
  /\ trace' = [trace EXCEPT ![p] = <<>>]
  /\ rpc' = [rpc EXCEPT ![p] = "none"]
  /\ consulted' = [consulted EXCEPT ![p] = <<>>]
  /\ UNCHANGED <<log, env, now, rateBucket, nonceSeen, doCounter, doAlarm, others>>

LimiterKeys == {LimiterKey(st, MkReq(None, None, <<>>, [NoEnvelope EXCEPT !.clientId = c], None)) :
                  st \in {"ip", "client"}, c \in {None, ClientA}}

(***************************************************************************)
(* The gateway serving one request at a time.  An alarm falls due two       *)
(* windows after the check that set it, which is beyond the clock of this  *)
(* specification.                                                          *)
(***************************************************************************)
\* a request of the general menu arrives
Receive(p, cap) ==
  /\ pc[p] = "idle"
  /\ \E r \in Requests(now) : FetchStart(p, r, cap)

Next ==
  \/ Tick(Times(MaxWindows))
  \/ Receive("p1", MaxCount)
  \/ SignResume("p1")
  \/ VerifiedResume("p1", MaxCount)
  \/ IpResume("p1", MaxCount)
  \/ ClientResume("p1")
  \/ \E o \in {"ok", "status", "error"} : DoRespond("p1", o, MaxCount)
  \/ \E u \in UpstreamMenu : UpstreamRespond("p1", u)
  \/ UpstreamFail("p1")
  \/ Complete("p1")

Spec == Init /\ [][Next]_vars

(***************************************************************************)
(* The gateway with signed requests required, over the lifetime of a nonce *)
(* record: well-formed requests that differ in their signature headers.    *)
(***************************************************************************)
\* the timestamp of a captured request: the earliest one that is still fresh
\* when a record made at second 0 expires
CapturedTs == NonceTtlSec - FreshnessSec

SignedRequests(clock) ==
  LET pq == Prefix \o S_forecast \o Search(Q_Denver)
  IN  {MkReq(S_Bearer \o Token, Prefix \o S_forecast, Q_Denver, e, None) :
         e \in EnvelopeMenu(clock \div 1000, pq)
               \cup {Envelope(Secret, IntToStr(t), N1, None, pq) : t \in {0, CapturedTs}}}

ReceiveSigned(p, cap) ==
  /\ pc[p] = "idle"
  /\ \E r \in SignedRequests(now) : FetchStart(p, r, cap)

InitSigned ==
  /\ env = MkEnv(Secret, None, S_true, None, FALSE)
  /\ InitState

NextSigned ==
  \/ Tick(Times(MaxSignedWindows))
  \/ ReceiveSigned("p1", MaxCount)
  \/ SignResume("p1")
  \/ VerifiedResume("p1", MaxCount)
  \/ IpResume("p1", MaxCount)
  \/ ClientResume("p1")
  \/ UpstreamRespond("p1", UpstreamOk)
  \/ UpstreamFail("p1")
  \/ Complete("p1")

SpecSigned == InitSigned /\ [][NextSigned]_vars

(***************************************************************************)
(* A request and its replay: invocation p1 takes a signed request; once it *)
(* has been accepted, the identical request is sent again, at any later    *)
(* time, to invocation p2.                                                 *)
(***************************************************************************)
ReceiveReplay(p, first, cap) ==
  /\ pc[p] = "idle"
  /\ pc[first] = "verified"
  /\ FetchStart(p, req[first], cap)

NextReplay ==
  \/ Tick(Times(MaxSignedWindows))
  \/ ReceiveSigned("p1", MaxCount)
  \/ SignResume("p1")
  \/ Complete("p1")
  \/ ReceiveReplay("p2", "p1", MaxCount)
  \/ SignResume("p2")
  \/ VerifiedResume("p2", MaxCount)
  \/ IpResume("p2", MaxCount)
  \/ ClientResume("p2")
  \/ UpstreamRespond("p2", UpstreamOk)
  \/ UpstreamFail("p2")
  \/ Complete("p2")

SpecReplay == InitSigned /\ [][NextReplay]_vars

(***************************************************************************)
(* A request and the same request under other X-Proxy-Nonce and            *)
(* X-Proxy-Client-Id headers: timestamp, signature and path are kept.      *)
(***************************************************************************)
\* (clientId, nonce) pairs with and without '.' and ':' in them
LabelMenu ==
  {<<<<"c">>, <<"a", ".", "b">>>>,
   <<<<"b", ".", "c">>, <<"a">>>>,
   <<<<"c">>, <<"a">>>>,
   <<<<"c", ":", "d">>, <<"e">>>>,
   <<<<"c">>, <<"d", ":", "e">>>>,
   <<None, <<"a">>>>}

LabelledRequests(clock) ==
  LET pq == Prefix \o S_forecast \o Search(Q_Denver)
  IN  {MkReq(S_Bearer \o Token, Prefix \o S_forecast, Q_Denver,
             Envelope(Secret, IntToStr(clock \div 1000), l[2], l[1], pq), None) :
         l \in LabelMenu}

ReceiveLabelled(p, cap) ==
  /\ pc[p] = "idle"
  /\ \E r \in LabelledRequests(now) : FetchStart(p, r, cap)

\* the request accepted for invocation first is sent again with the two
\* headers changed
ReceiveRelabelled(p, first, cap) ==
  /\ pc[p] = "idle"
  /\ pc[first] = "verified"
  /\ \E l \in LabelMenu :
       /\ <<l[1], l[2]>> # <<req[first].clientId, req[first].nonce>>
       /\ FetchStart(p, [req[first] EXCEPT !.clientId = l[1], !.nonce = l[2]], cap)

NextRelabel ==
  \/ Tick(Times(MaxWindows))
  \/ ReceiveLabelled("p1", MaxCount)
  \/ SignResume("p1")
  \/ Complete("p1")
  \/ ReceiveRelabelled("p2", "p1", MaxCount)
  \/ SignResume("p2")
  \/ VerifiedResume("p2", MaxCount)
  \/ IpResume("p2", MaxCount)
  \/ ClientResume("p2")
  \/ UpstreamRespond("p2", UpstreamOk)
  \/ UpstreamFail("p2")
  \/ Complete("p2")

SpecRelabel == InitSigned /\ [][NextRelabel]_vars

(***************************************************************************)
(* Two invocations of the gateway in one isolate, signatures required:     *)
(* each runs from one suspension to the next, in any interleaving.         *)
(***************************************************************************)
\* what one client sends at a clock: its request signed for that second
ClientRequests(clock) ==
  {MkReq(S_Bearer \o Token, Prefix \o S_forecast, Q_Denver,
         Signed(clock \div 1000, Prefix \o S_forecast, Q_Denver), None)}

ReceiveFromClient(p, cap) ==
  /\ pc[p] = "idle"
  /\ \E r \in ClientRequests(now) : FetchStart(p, r, cap)

NextConcurrent ==
  \/ Tick(Times(MaxWindows))
  \/ \E p \in Procs :
       \/ ReceiveFromClient(p, MaxInFlight)
       \/ SignResume(p)
       \/ VerifiedResume(p, MaxInFlight)
       \/ IpResume(p, MaxInFlight)
       \/ ClientResume(p)
       \/ UpstreamRespond(p, UpstreamOk)
       \/ UpstreamFail(p)
       \/ Complete(p)

SpecConcurrent == InitSigned /\ [][NextConcurrent]_vars

(***************************************************************************)
(* The gateway under load within one window: unsigned requests of two      *)
(* callers, every setting of MAX_REQUESTS_PER_MINUTE, with and without the *)
(* durable object.                                                         *)
(***************************************************************************)
MaxMenu ==
  {None, <<>>, <<"0">>, S_abc, <<"5">>, <<"-", "5">>, <<"1", "0">>, <<"2", "0">>,
   <<"1", "0", ".", "5">>, S_Infinity}

\* every setting with the in-memory limiter, the lowest limit with the
\* durable object
RateEnvMenu ==
  {MkEnv(None, None, None, m, FALSE) : m \in MaxMenu}
  \cup {MkEnv(None, None, None, <<"1", "0">>, TRUE)}

\* one caller without the headers, one with an IP and a client id
RateRequests ==
  {MkReq(S_Bearer \o Token, Prefix \o S_current, Q_Denver, NoEnvelope, None),
   MkReq(S_Bearer \o Token, Prefix \o S_current, Q_Denver,
         [NoEnvelope EXCEPT !.clientId = ClientA], Ip1)}

ReceiveLoad(p, cap) ==
  /\ pc[p] = "idle"
  /\ \E r \in RateRequests : FetchStart(p, r, cap)

InitRate == env \in RateEnvMenu /\ InitState

NextRate ==
  \/ ReceiveLoad("p1", MaxRateCount)
  \/ IpResume("p1", MaxRateCount)
  \/ ClientResume("p1")
  \/ \E o \in {"ok", "status", "error"} : DoRespond("p1", o, MaxRateCount)
  \/ UpstreamRespond("p1", UpstreamOk)
  \/ UpstreamFail("p1")
  \/ Complete("p1")

SpecRate == InitRate /\ [][NextRate]_vars

(***************************************************************************)
(* Requests whose query string repeats a parameter name.                   *)
(***************************************************************************)
RepeatQueryMenu ==
  {<<<<S_q, S_Denver>>>>,
   <<<<S_q, Rep("a", QMaxLen + 1)>>>>,
   <<<<S_q, S_Denver>>, <<S_q, Rep("a", QMaxLen)>>>>,
   <<<<S_q, S_Denver>>, <<S_q, Rep("a", QMaxLen + 1)>>>>,
   <<<<S_q, Rep("a", QMaxLen + 1)>>, <<S_q, S_Denver>>>>,
   <<<<S_q, S_Denver>>, <<S_days, <<"1", "5">>>>>>,
   <<<<S_q, S_Denver>>, <<S_days, <<"3">>>>, <<S_days, <<"1", "0">>>>>>,
   <<<<S_q, S_Denver>>, <<S_days, <<"3">>>>, <<S_days, <<"1", "5">>>>>>,
   <<<<S_q, S_Denver>>, <<S_days, <<"1", "5">>>>, <<S_days, <<"3">>>>>>,
   <<<<S_q, S_Denver>>, <<S_days, <<"3">>>>, <<S_days, S_abc>>>>}

RepeatRequests ==
  {MkReq(S_Bearer \o Token, Prefix \o ep, q, NoEnvelope, ip) :
     ep \in {S_current, S_forecast}, q \in RepeatQueryMenu, ip \in {None, Ip1}}

ReceiveRepeated(p, cap) ==
  /\ pc[p] = "idle"
  /\ \E r \in RepeatRequests : FetchStart(p, r, cap)

InitQuery ==
  /\ env = MkEnv(None, None, None, None, FALSE)
  /\ InitState

NextQuery ==
  \/ ReceiveRepeated("p1", MaxCount)
  \/ IpResume("p1", MaxCount)
  \/ ClientResume("p1")
  \/ UpstreamRespond("p1", UpstreamOk)
  \/ UpstreamFail("p1")
  \/ Complete("p1")

SpecQuery == InitQuery /\ [][NextQuery]_vars

(***************************************************************************)
(* Requests that fail each check and requests that pass them all, within   *)
(* one window, with and without signatures required.                       *)
(***************************************************************************)
FrameEnvMenu ==
  {MkEnv(None, None, None, <<"1", "0">>, FALSE),
   MkEnv(Secret, None, S_true, <<"1", "0">>, FALSE)}

FrameRequests ==
  LET pq == Prefix \o S_forecast \o Search(Q_Denver)
  IN  RateRequests
      \cup {MkReq(S_Bearer \o S_evil, Prefix \o S_current, Q_Denver, NoEnvelope, Ip1),
            MkReq(S_Bearer \o Token, <<"/", "v", "1", "/">> \o S_current, Q_Denver,
                  NoEnvelope, Ip1),
            MkReq(S_Bearer \o Token, Prefix \o S_evil \o S_json, Q_Denver, NoEnvelope, Ip1),
            MkReq(S_Bearer \o Token, Prefix \o S_forecast, Q_Days15, NoEnvelope, Ip1)}
      \cup {MkReq(S_Bearer \o Token, Prefix \o S_forecast, Q_Denver, e, None) :
              e \in {Envelope(Secret, <<"0">>, N1, None, pq),
                     Envelope(Secret, <<"0">>, N2, ClientA, pq),
                     Envelope(OtherSecret, <<"0">>, N1, ClientA, pq)}}

ReceiveAny(p, cap) ==
  /\ pc[p] = "idle"
  /\ \E r \in FrameRequests : FetchStart(p, r, cap)

InitFrame == env \in FrameEnvMenu /\ InitState

NextFrame ==
  \/ ReceiveAny("p1", MaxRateCount)
  \/ SignResume("p1")
  \/ VerifiedResume("p1", MaxRateCount)
  \/ IpResume("p1", MaxRateCount)
  \/ ClientResume("p1")
  \/ UpstreamRespond("p1", UpstreamOk)
  \/ UpstreamFail("p1")
  \/ Complete("p1")

SpecFrame == InitFrame /\ [][NextFrame]_vars

(***************************************************************************)
(* Signed requests under load: a client signs each request with a nonce it *)
(* has not used, until a rate limit refuses one; the refused request is    *)
(* then sent again as it is.                                               *)
(***************************************************************************)
ThrottleEnvMenu ==
  {MkEnv(Secret, None, S_true, <<"1", "0">>, FALSE),
   MkEnv(Secret, None, S_true, <<"1", "0">>, TRUE)}

\* a nonce that is not in the replay cache
FreshNonce == <<"n">> \o IntToStr(Cardinality(DOMAIN nonceSeen) + 1)

FreshRequests(clock) ==
  LET pq == Prefix \o S_forecast \o Search(Q_Denver)
  IN  {MkReq(S_Bearer \o Token, Prefix \o S_forecast, Q_Denver,
             Envelope(Secret, IntToStr((clock \div 1000) + d), FreshNonce, None, pq), None) :
         d \in {0, CapturedTs}}

ReceiveFresh(p, cap) ==
  /\ pc[p] = "idle"
  /\ Cardinality(DOMAIN nonceSeen) < cap
  /\ \E r \in FreshRequests(now) : FetchStart(p, r, cap)

\* the request that invocation first answered 429 arrives again
ReceiveResent(p, first, cap) ==
  /\ pc[p] = "idle"
  /\ pc[first] = "done" /\ resp[first].status = 429
  /\ FetchStart(p, req[first], cap)

\* time passes while the 429 answer of that invocation stands
Later(first, instants) ==
  /\ pc[first] = "done" /\ resp[first].status = 429
  /\ \E t \in instants : t > now /\ now' = t
  /\ UNCHANGED <<log, rpc, env, rateBucket, nonceSeen, doCounter, doAlarm, pc, req,
                 sigNow, resp, outbound, upresp, trace, consulted, others>>

InitThrottle == env \in ThrottleEnvMenu /\ InitState

NextThrottle ==
  \/ Later("p1", Times(MaxSignedWindows))
  \/ ReceiveFresh("p1", MaxRateCount)
  \/ ReceiveResent("p2", "p1", MaxRateCount)
  \/ (resp["p1"].status # 429 /\ Complete("p1"))
  \/ \E p \in Procs :
       \/ SignResume(p)
       \/ VerifiedResume(p, MaxRateCount)
       \/ IpResume(p, MaxRateCount)
       \/ ClientResume(p)
       \/ \E o \in {"ok", "status", "error"} : DoRespond(p, o, MaxRateCount)
       \/ UpstreamRespond(p, UpstreamOk)
       \/ UpstreamFail(p)

SpecThrottle == InitThrottle /\ [][NextThrottle]_vars

(***************************************************************************)
(* HttpClient (src/utils/httpClient.ts).  A URL is its part before the     *)
(* query and the list of its query pairs; a string new URL() rejects is    *)
(* InvalidUrl.                                                             *)
(***************************************************************************)
DefaultTimeoutMs == 10000
S_REDACTED == <<"[", "R", "E", "D", "A", "C", "T", "E", "D", "]">>
S_invalidurl == <<"[", "i", "n", "v", "a", "l", "i", "d", "-", "u", "r", "l", "]">>
secretParams ==
  <<<<"k", "e", "y">>, <<"a", "p", "i", "_", "k", "e", "y">>, <<"a", "p", "i", "k", "e", "y">>, <<"t", "o", "k", "e", "n">>,
    <<"a", "c", "c", "e", "s", "s", "_", "t", "o", "k", "e", "n">>, <<"c", "l", "i", "e", "n", "t", "_", "s", "e", "c", "r", "e", "t">>>>

MkUrl(base, params) == [base |-> base, params |-> params]
InvalidUrl == [base |-> None, params |-> <<>>]

\* application/x-www-form-urlencoded serialisation of a name or a value, for
\* the characters used here: letters, digits, '.', '-' and '_' stay, a
\* space becomes '+', brackets are percent-encoded
FormEncodeChar(c) ==
  CASE c = "[" -> <<"%", "5", "B">>
    [] c = "]" -> <<"%", "5", "D">>
    [] c = " " -> <<"+">>
    [] OTHER -> <<c>>
RECURSIVE FormEncode(_)
FormEncode(str) ==
  IF str = <<>> THEN <<>> ELSE FormEncodeChar(Head(str)) \o FormEncode(Tail(str))

\* URLSearchParams.toString()
RECURSIVE FormSerialize(_)
FormSerialize(params) ==
  IF params = <<>> THEN <<>>
  ELSE FormEncode(params[1][1]) \o <<"=">> \o FormEncode(params[1][2])
       \o (IF Len(params) > 1 THEN <<"&">> ELSE <<>>) \o FormSerialize(Tail(params))

\* URL.toString() after its searchParams were modified
UrlToString(u) ==
  u.base \o (IF u.params = <<>> THEN <<>> ELSE <<"?">> \o FormSerialize(u.params))
\* the string the caller passed: the pairs as the caller wrote them
UrlHref(u) ==
  u.base \o (IF u.params = <<>> THEN <<>> ELSE <<"?">> \o JoinPairs(u.params))

ParamsHas(params, name) == \E i \in 1..Len(params) : params[i][1] = name

\* the loop of lines 5-7, from the i-th name on
RECURSIVE RedactFrom(_, _)
RedactFrom(params, i) ==
  IF i > Len(secretParams) THEN params
  ELSE LET step == {IF ParamsHas(params, secretParams[i])
                    THEN ParamsSet(params, secretParams[i], S_REDACTED)
                    ELSE params}
       IN  CHOOSE r \in {RedactFrom(x, i + 1) : x \in step} : TRUE

redactUrlSecretsKeyOnly(u) ==
  IF u = InvalidUrl THEN S_invalidurl
  ELSE IF ParamsHas(u.params, secretParams[1])
       THEN UrlToString([u EXCEPT !.params = ParamsSet(@, secretParams[1], S_REDACTED)])
       ELSE UrlHref(u)

\* lines 1-12
redactUrlSecrets(u) ==
  IF u = InvalidUrl THEN S_invalidurl
  ELSE IF \E i \in 1..Len(secretParams) : ParamsHas(u.params, secretParams[i])
       THEN UrlToString([u EXCEPT !.params = RedactFrom(@, 1)])
       ELSE UrlHref(u)

\* the messages of lines 24 and 29
FailedMessage(u, status) ==
  <<"G", "E", "T", " ">> \o redactUrlSecrets(u) \o <<" ", "f", "a", "i", "l", "e", "d", ":", " ">> \o IntToStr(status)
TimedOutMessage(u, timeoutMs) ==
  <<"G", "E", "T", " ">> \o redactUrlSecrets(u) \o <<" ", "t", "i", "m", "e", "d", " ", "o", "u", "t", " ", "a", "f", "t", "e", "r", " ">> \o IntToStr(timeoutMs) \o <<"m", "s">>
\* the message of an error of the platform that get rethrows (line 31)
S_fetchfailed == <<"f", "e", "t", "c", "h", " ", "f", "a", "i", "l", "e", "d">>
S_badjson == <<"U", "n", "e", "x", "p", "e", "c", "t", "e", "d", " ", "t", "o", "k", "e", "n">>

\* get(url) is called on a client built with timeoutMs (a first call, or
\* one after the last has returned or thrown): lines 18-22, up to the await
\* of fetch
HttpGet(u, timeoutMs) ==
  /\ http.pc \in {"idle", "returned", "threw"}
  /\ http' = [pc |-> "pending", url |-> u, timeoutMs |-> timeoutMs, status |-> 0,
              message |-> None]
  /\ UNCHANGED <<env, now, rateBucket, nonceSeen, doCounter, doAlarm, pc, req, sigNow,
                 resp, outbound, upresp, trace, rpc, log, consulted, oauth, wire, doCall>>

\* fetch resolves with a response of the given status: line 23 throws for a
\* status outside 200-299 and get rejects; otherwise get awaits the body
HttpRespond(status) ==
  /\ http.pc = "pending"
  /\ http.url # InvalidUrl
  /\ http' = IF status >= 200 /\ status <= 299
             THEN [http EXCEPT !.pc = "body", !.status = status]
             ELSE [http EXCEPT !.pc = "threw", !.status = status,
                               !.message = FailedMessage(http.url, status)]
  /\ UNCHANGED <<env, now, rateBucket, nonceSeen, doCounter, doAlarm, pc, req, sigNow,
                 resp, outbound, upresp, trace, rpc, log, consulted, oauth, wire, doCall>>

\* res.json() resolves, or rejects with a parse error that get rethrows
HttpBody(ok) ==
  /\ http.pc = "body"
  /\ http' = IF ok THEN [http EXCEPT !.pc = "returned"]
             ELSE [http EXCEPT !.pc = "threw", !.message = S_badjson]
  /\ UNCHANGED <<env, now, rateBucket, nonceSeen, doCounter, doAlarm, pc, req, sigNow,
                 resp, outbound, upresp, trace, rpc, log, consulted, oauth, wire, doCall>>

\* fetch rejects (the URL is invalid, the network fails): get rethrows
HttpNetworkError ==
  /\ http.pc = "pending"
  /\ http' = [http EXCEPT !.pc = "threw", !.message = S_fetchfailed]
  /\ UNCHANGED <<env, now, rateBucket, nonceSeen, doCounter, doAlarm, pc, req, sigNow,
                 resp, outbound, upresp, trace, rpc, log, consulted, oauth, wire, doCall>>

\* the timer of line 19 fires while get awaits: the signal aborts the fetch
\* or the read of the body, and line 29 throws
HttpTimeout ==
  /\ http.pc \in {"pending", "body"}
  /\ http' = [http EXCEPT !.pc = "threw",
                          !.message = TimedOutMessage(http.url, http.timeoutMs)]
  /\ UNCHANGED <<env, now, rateBucket, nonceSeen, doCounter, doAlarm, pc, req, sigNow,
                 resp, outbound, upresp, trace, rpc, log, consulted, oauth, wire, doCall>>

\* the URLs get is called with: the weather API with its key, the same with
\* other secrets, names that differ in case, a repeated key, no secret
SecretA == <<"s", "3", "c", "r", "3", "t", "A">>
SecretB == <<"h", "u", "n", "t", "e", "r", "2">>
S_weatherbase == <<"h", "t", "t", "p", "s", ":", "/", "/", "a", "p", "i", ".", "w", "e", "a", "t", "h", "e", "r", "a", "p", "i", ".", "c", "o", "m", "/", "v", "1", "/", "c", "u", "r", "r", "e", "n", "t", ".", "j", "s", "o", "n">>
SecretNames == {secretParams[i] : i \in 1..Len(secretParams)}
UrlMenu ==
  {MkUrl(S_weatherbase, <<<<n, v>>, <<S_q, S_Denver>>>>) : n \in SecretNames, v \in {SecretA, SecretB}}
  \cup {MkUrl(S_weatherbase, <<<<S_q, S_Denver>>, <<S_key, v>>, <<secretParams[4], w>>>>) :
           v \in {SecretA, SecretB}, w \in {SecretA, SecretB}}
  \cup {MkUrl(S_weatherbase, <<<<S_key, v>>, <<S_key, w>>>>) :
           v \in {SecretA, SecretB}, w \in {SecretA, SecretB}}
  \cup {MkUrl(S_weatherbase, <<<<S_q, S_Denver>>>>),
        MkUrl(S_weatherbase, <<>>),
        MkUrl(S_weatherbase, <<<<<<"K", "e", "y">>, S_abc>>>>),
        InvalidUrl}
StatusMenu == {200, 204, 301, 404, 500}
TimeoutMenu == {DefaultTimeoutMs, 50}

InitHttp ==
  /\ env = MkEnv(None, None, None, None, FALSE)
  /\ InitState

NextHttp ==
  \/ \E u \in UrlMenu, t \in TimeoutMenu : HttpGet(u, t)
  \/ \E st \in StatusMenu : HttpRespond(st)
  \/ \E ok \in BOOLEAN : HttpBody(ok)
  \/ HttpNetworkError
  \/ HttpTimeout

SpecHttp == InitHttp /\ [][NextHttp]_vars

(***************************************************************************)
(* Progress of the outbound calls.  The steps the runtime itself takes are *)
(* fair: a resumed continuation runs, a timer that was set fires.  The     *)
(* remote side owes nothing: the upstream and the durable object may never *)
(* answer.                                                                 *)
(***************************************************************************)
LiveEnvMenu == {MkEnv(None, None, None, None, rl) : rl \in {FALSE, TRUE}}

InitLive == env \in LiveEnvMenu /\ InitState

LocalStep ==
  \/ IpResume("p1", MaxCount)
  \/ ClientResume("p1")
  \/ Complete("p1")

NextLive ==
  \/ ReceiveLoad("p1", MaxCount)
  \/ LocalStep
  \/ \E o \in {"ok", "status", "error"} : DoRespond("p1", o, MaxCount)
  \/ UpstreamRespond("p1", UpstreamOk)
  \/ UpstreamFail("p1")
  \/ HttpGet(MkUrl(S_weatherbase, <<<<S_key, SecretA>>, <<S_q, S_Denver>>>>), DefaultTimeoutMs)
  \/ \E st \in {200, 500} : HttpRespond(st)
  \/ \E ok \in BOOLEAN : HttpBody(ok)
  \/ HttpNetworkError
  \/ HttpTimeout

SpecLive ==
  /\ InitLive
  /\ [][NextLive]_vars
  /\ WF_vars(LocalStep)
  /\ WF_vars(HttpTimeout)

(***************************************************************************)
(* The OAuth handler, in its two versions: src/unnamed/part_001 signs the  *)
(* state, src/githubHandler.ts does not.  A state is told by what it       *)
(* encodes: base64url of the JSON of {payloadB64, sigB64} ("signed", std   *)
(* when its text is also plain base64), base64 of the JSON of the request  *)
(* ("plain"), or text that is neither ("garbage").                         *)
(***************************************************************************)
MaxAgeSeconds == 600
CookieKey == <<"c", "k">>
AuthReqA == <<"r", "A">>
AuthReqB == <<"r", "B">>
CodeA == <<"c", "o", "d", "e">>

\* toBase64Url(encoder.encode(JSON.stringify({ iat, req })))
PayloadB64(iat, r) == [iat |-> iat, req |-> r]
\* part_001, lines 40-44
signStatePayload(payloadB64, secret) == toBase64Url(HmacSha256(secret, payloadB64))
\* part_001, lines 46-54, at second s
createSignedState(r, secret, s) ==
  [t |-> "signed", payloadB64 |-> PayloadB64(s, r),
   sigB64 |-> signStatePayload(PayloadB64(s, r), secret), std |-> TRUE, req |-> r]
\* src/githubHandler.ts, line 18
createPlainState(r) ==
  [t |-> "plain", payloadB64 |-> PayloadB64(0, r), sigB64 |-> None, std |-> TRUE, req |-> r]
GarbageState ==
  [t |-> "garbage", payloadB64 |-> PayloadB64(0, None), sigB64 |-> None, std |-> FALSE,
   req |-> None]

\* part_001, lines 56-77, with Date.now() at second s: the request of the
\* state, or None for null
parseAndVerifyState(state, secret, s) ==
  IF state.t # "signed" THEN None
  ELSE IF ~Truthy(state.sigB64) THEN None
  ELSE IF state.sigB64 # signStatePayload(state.payloadB64, secret) THEN None
  ELSE IF state.payloadB64.iat = 0 \/ ~Truthy(state.payloadB64.req) THEN None
  ELSE IF s - state.payloadB64.iat > MaxAgeSeconds THEN None
  ELSE state.payloadB64.req

\* src/githubHandler.ts, lines 33-37: JSON.parse(atob(state)), None when it
\* throws
parsePlainState(state) ==
  IF state.t = "plain" THEN state.req
  ELSE IF state.t = "signed" /\ state.std THEN <<"o", "b", "j">>
  ELSE None

OAuthUnchanged ==
  UNCHANGED <<env, now, rateBucket, nonceSeen, doCounter, doAlarm, pc, req, sigNow,
              resp, outbound, upresp, trace, rpc, log, consulted, http, wire,
              doCall>>

\* GET /authorize of either version: the state it puts in the redirect
Authorize(version, r) ==
  /\ oauth.pc \in {"idle", "done"}
  /\ oauth' = [oauth EXCEPT !.issued = @ \cup
                 {IF version = "signed" THEN createSignedState(r, CookieKey, NowSec)
                  ELSE createPlainState(r)}]
  /\ oauth'.issued # oauth.issued
  /\ OAuthUnchanged

\* GET /callback?state=&code= of either version, up to the exchange of the
\* code: 400 for a missing or refused state, else the exchange is awaited
Callback(version, state, code) ==
  LET parsed == IF version = "signed"
                THEN parseAndVerifyState(state, CookieKey, NowSec)
                ELSE parsePlainState(state)
      refused == ~Truthy(code) \/ state.t = "none" \/ parsed = None
  IN  /\ oauth.pc \in {"idle", "done"}
      /\ oauth' = [oauth EXCEPT !.pc = IF refused THEN "done" ELSE "exchange",
                               !.handler = version, !.state = state, !.code = code,
                               !.at = NowSec,
                               !.status = IF refused THEN 400 ELSE 0,
                               !.exchanged = FALSE, !.completed = FALSE]
      /\ OAuthUnchanged

\* fetchUpstreamAuthToken returns: an error response, or the token, after
\* which the authorization is completed and the client redirected
Exchange(ok) ==
  /\ oauth.pc = "exchange"
  /\ oauth' = [oauth EXCEPT !.pc = "done", !.exchanged = TRUE,
                           !.status = IF ok THEN 302 ELSE 500,
                           !.completed = ok]
  /\ OAuthUnchanged

\* the clock of the OAuth handler: second 0, second 1, and the seconds from
\* MaxAgeSeconds on
OAuthTimes(late) == {0, 1000} \cup {(MaxAgeSeconds + k) * 1000 : k \in 0..late}

\* the states a caller may send: those issued, a state signed with another
\* key, a signature moved to another payload, an unsigned state, garbage,
\* none
StatesSent ==
  oauth.issued
  \cup {createSignedState(AuthReqB, OtherSecret, NowSec),
        [createSignedState(AuthReqB, CookieKey, NowSec) EXCEPT
           !.sigB64 = signStatePayload(PayloadB64(NowSec, AuthReqA), CookieKey)],
        [createSignedState(AuthReqB, OtherSecret, NowSec) EXCEPT !.std = FALSE],
        createPlainState(AuthReqB),
        GarbageState,
        [GarbageState EXCEPT !.t = "none"]}

NextOAuth ==
  \/ Tick(OAuthTimes(MaxLateSec))
  \/ \E v \in {"signed", "plain"} : Authorize(v, AuthReqA)
  \/ \E v \in {"signed", "plain"}, st \in StatesSent, c \in {CodeA, None} : Callback(v, st, c)
  \/ \E ok \in BOOLEAN : Exchange(ok)

SpecOAuth == InitHttp /\ [][NextOAuth]_vars

(***************************************************************************)
(* WeatherApiService.weatherGet in proxy mode, and its request on the way  *)
(* to the gateway.  The service runs on its own machine: its clock is the  *)
(* gateway's plus a skew.                                                  *)
(***************************************************************************)
\* weatherService.ts, lines 138-148
signProxyRequest(secret, payload) == toBase64Url(HmacSha256(secret, payload))

\* weatherService.ts, line 174
signingPayload(ts, pathname, search) == ts \o <<".">> \o S_GET \o <<".">> \o pathname \o search

\* weatherService.ts, lines 162-181: the request handed to HttpClient.get by
\* a service configured with a bearer token and a signing secret, at second
\* s of its clock
weatherGet(endpoint, params, bearer, secret, s) ==
  LET pathname == Prefix \o endpoint
      search == IF params = <<>> THEN <<>> ELSE <<"?">> \o FormSerialize(params)
      ts == IntToStr(s)
  IN  [auth |-> S_Bearer \o bearer, pathname |-> pathname, params |-> params,
       ts |-> ts, nonce |-> None,
       sig |-> signProxyRequest(secret, signingPayload(ts, pathname, search)),
       clientId |-> None, ip |-> None]

\* part_000, lines 124-147: verifySignature of the earlier gateway, which
\* knows no nonce
verifySignatureV1(e, r, nowS) ==
  /\ Truthy(e.WEATHER_PROXY_SIGNING_SECRET)
  /\ Truthy(r.ts) /\ Truthy(r.sig)
  /\ NumberIsFinite(Number(r.ts))
  /\ ~Stale(nowS, Number(r.ts))
  /\ r.sig = ExpectedSig(e.WEATHER_PROXY_SIGNING_SECRET,
                         r.ts \o <<".">> \o S_GET \o <<".">> \o PathAndQuery(r))

SkewMenu == {0 - FreshnessSec, 0, FreshnessSec}

\* a tool of the service calls weatherGet
WeatherGet(endpoint, params, skew) ==
  /\ NowSec + skew >= 0
  /\ wire' = weatherGet(endpoint, params, Token, Secret, NowSec + skew)
  /\ wire' # wire
  /\ UNCHANGED <<env, now, rateBucket, nonceSeen, doCounter, doAlarm, pc, req, sigNow,
                 resp, outbound, upresp, trace, rpc, log, consulted, http, oauth,
                 doCall>>

\* the request of the service reaches the gateway
Deliver(p, cap) ==
  /\ wire # NoReq
  /\ FetchStart(p, wire, cap)

NextClient ==
  \/ Tick(Times(MaxWindows))
  \/ \E ep \in {S_current, S_forecast},
        q \in {Q_Denver, <<<<S_q, S_Denver>>, <<S_days, <<"3">>>>>>},
        skew \in SkewMenu : WeatherGet(ep, q, skew)
  \/ Deliver("p1", MaxCount)
  \/ ReceiveFromClient("p1", MaxCount)
  \/ SignResume("p1")
  \/ VerifiedResume("p1", MaxCount)
  \/ IpResume("p1", MaxCount)
  \/ ClientResume("p1")
  \/ UpstreamRespond("p1", UpstreamOk)
  \/ UpstreamFail("p1")
  \/ Complete("p1")

SpecClient == InitSigned /\ [][NextClient]_vars

(***************************************************************************)
(* The in-memory limiter called directly, for one key and one limit.       *)
(***************************************************************************)
LimitMenu == {1, 2, 3, LimitFloor}
TheKey == S_ip \o Ip1

\* isRateLimitedInMemory(TheKey, limit) is called, and the call is logged
LimiterCall(limit) ==
  LET res == isRateLimitedInMemory(rateBucket, now, TheKey, Int2Num(limit))
  IN  /\ Len(log) < MaxCalls
      /\ log # <<>> => log[1].limit = limit
      /\ rateBucket' = res.rb
      /\ log' = Append(log, [t |-> now, limit |-> limit, limited |-> res.limited])
      /\ UNCHANGED <<env, now, nonceSeen, doCounter, doAlarm, pc, req, sigNow,
                     resp, outbound, upresp, trace, rpc, consulted, others>>

InitLimiter ==
  /\ env = MkEnv(None, None, None, None, FALSE)
  /\ InitState

NextLimiter ==
  \/ Tick(Times(MaxWindows))
  \/ \E l \in LimitMenu : LimiterCall(l)

SpecLimiter == InitLimiter /\ [][NextLimiter]_vars

(***************************************************************************)
(* The two limiters side by side: every check is made of both, for the     *)
(* same key, at the same clock and with the same limit, as                 *)
(* isRateLimitedGlobal makes it with and without env.RATE_LIMITER; the     *)
(* alarm of the durable object fires when it is due.                       *)
(***************************************************************************)
EquivLimits == {Int2Num(1), Int2Num(2), Fin(3, 2), Infinity}

BothCalled(limit) ==
  LET m == isRateLimitedInMemory(rateBucket, now, TheKey, limit)
      d == DoFetch(doCounter, now, TheKey, limit)
  IN  /\ Len(log) < MaxEquivCalls
      /\ rateBucket' = m.rb
      /\ doCounter' = MapSet(doCounter, TheKey, d.counter)
      /\ doAlarm' = MapSet(doAlarm, TheKey, now + 2 * WindowMs)
      /\ log' = Append(log, [t |-> now, limit |-> limit, limited |-> m.limited,
                             allowed |-> d.allowed,
                             fresh |-> ~MapHas(doCounter, TheKey) /\ log # <<>>])
      /\ UNCHANGED <<env, now, nonceSeen, pc, req, sigNow, resp, outbound, upresp,
                     trace, rpc, consulted, others>>

NextEquiv ==
  \/ Tick(Times(MaxEquivWindows))
  \/ \E l \in EquivLimits : BothCalled(l)
  \/ Alarm(TheKey)

SpecEquiv == InitLimiter /\ [][NextEquiv]_vars

(***************************************************************************)
(* RateLimiterDO.fetch step by step, for concurrent requests to the object *)
(* of one key.  A request suspends on request.json() and on storage.get(). *)
(* While a storage.get() is in progress the platform's input gate delivers *)
(* no other event to the object; storage.put() and setAlarm() take effect  *)
(* when they are called, so the code from the value read up to the reply   *)
(* runs in one piece.                                                      *)
(***************************************************************************)
DoLimits == {Int2Num(1), Int2Num(2)}

DoGateOpenAlways(key) == TRUE
\* the input gate of the object named key: closed while one of its
\* requests awaits storage.get
DoGateOpen(key) == \A q \in Procs : ~(doCall[q].pc = "get" /\ doCall[q].key = key)

AlarmTimeOneWindow(clock) == clock + WindowMs
\* line 148: the time setAlarm is given
AlarmTime(clock) == clock + 2 * WindowMs

DoInFlight == Cardinality({q \in Procs : doCall[q].pc # "none"})

DoUnchanged ==
  UNCHANGED <<env, rateBucket, nonceSeen, pc, req, sigNow, resp, outbound, upresp,
              trace, rpc, consulted, http, oauth, wire>>

\* lines 128-131: the request is delivered and awaits its body
DoReceive(p, key, limit, cap) ==
  /\ doCall[p].pc = "none"
  /\ DoGateOpen(key)
  /\ Len(log) + DoInFlight < cap
  /\ doCall' = [doCall EXCEPT ![p] = [NoDoCall EXCEPT !.pc = "json", !.key = key,
                                                      !.limit = limit]]
  /\ UNCHANGED <<now, doCounter, doAlarm, log>>
  /\ DoUnchanged

\* lines 131-136: the body has arrived, now is read and storage.get called
DoRead(p) ==
  LET key == doCall[p].key
  IN  /\ doCall[p].pc = "json"
      /\ DoGateOpen(key)
      /\ doCall' = [doCall EXCEPT ![p] =
                      [@ EXCEPT !.pc = "get", !.now = now,
                                !.snap = IF MapHas(doCounter, key)
                                         THEN MapSet(EmptyMap, key, doCounter[key])
                                         ELSE EmptyMap]]
      /\ UNCHANGED <<now, doCounter, doAlarm, log>>
      /\ DoUnchanged

\* lines 136-152: storage.get has answered; the counter is computed and
\* written, the alarm set and the reply sent
DoWrite(p) ==
  LET c == doCall[p]
      d == DoFetch(c.snap, c.now, c.key, c.limit)
  IN  /\ c.pc = "get"
      /\ doCounter' = MapSet(doCounter, c.key, d.counter)
      /\ doAlarm' = MapSet(doAlarm, c.key, AlarmTime(c.now))
      /\ log' = Append(log, [t |-> c.now, limit |-> c.limit, allowed |-> d.allowed,
                             count |-> d.counter.count,
                             overlapped |-> DoInFlight > 1])
      /\ doCall' = [doCall EXCEPT ![p] = NoDoCall]
      /\ UNCHANGED now
      /\ DoUnchanged

\* lines 154-156: the alarm of the object is delivered
DoAlarmFires(key) ==
  /\ DoGateOpen(key)
  /\ Alarm(key)

NextDo ==
  \/ Tick(Times(MaxDoWindows))
  \/ \E p \in Procs, l \in DoLimits : DoReceive(p, TheKey, l, MaxDoCalls)
  \/ \E p \in Procs : DoRead(p)
  \/ \E p \in Procs : DoWrite(p)
  \/ DoAlarmFires(TheKey)

SpecDo == InitLimiter /\ [][NextDo]_vars

\* The same with a clock that runs two windows past the last request: a
\* request reads the clock only while its alarm falls within the clock's
\* range.  The platform delivers a due alarm, requests are answered and
\* time passes.
DoHorizon == (MaxDoWindows + 1) * WindowMs

DoReadInRange(p) ==
  /\ AlarmTime(now) <= DoHorizon
  /\ DoRead(p)

DoStep ==
  \/ \E p \in Procs : DoReadInRange(p)
  \/ \E p \in Procs : DoWrite(p)

NextDoLive ==
  \/ Tick(Times(MaxDoWindows + 1))
  \/ \E p \in Procs : DoReceive(p, TheKey, Int2Num(1), MaxDoCalls)
  \/ DoStep
  \/ DoAlarmFires(TheKey)

SpecDoLive ==
  /\ InitLimiter
  /\ [][NextDoLive]_vars
  /\ WF_vars(Tick(Times(MaxDoWindows + 1)))
  /\ WF_vars(DoStep)
  /\ WF_vars(DoAlarmFires(TheKey))

(***************************************************************************)
(* Properties.  The conditions of a property are written out from the      *)
(* request itself and do not go through the worker's own checks.           *)
(***************************************************************************)
FiveEndpoints == {S_current, S_forecast, S_astronomy, S_history, S_future}
GoodBearer(r) == r.auth = S_Bearer \o env.WEATHER_PROXY_BEARER_TOKEN
AllowListed(r) ==
  /\ startsWith(r.pathname, Prefix)
  /\ SubSeq(r.pathname, Len(Prefix) + 1, Len(r.pathname)) \in FiveEndpoints
FirstQ(r) == OrElse(ParamsGet(r.params, S_q), <<>>)
DaysGiven(r) == Truthy(ParamsGet(r.params, S_days))
DaysOf(r) == Number(ParamsGet(r.params, S_days))
IsForecast(r) == r.pathname = Prefix \o S_forecast
\* invocation p takes its request in this step
Arrives(p) == pc[p] = "idle" /\ pc'[p] # "idle"
\* the step runs no later stage for p: no signature verification, no rate
\* counter changed, no nonce recorded, nothing sent upstream
NothingSpent(p) ==
  /\ \A i \in 1..Len(trace'[p]) : trace'[p][i] \notin {"signature", "ip", "client", "forward"}
  /\ rateBucket' = rateBucket
  /\ doCounter' = doCounter
  /\ doAlarm' = doAlarm
  /\ nonceSeen' = nonceSeen
  /\ ~outbound'[p].sent

\* C1: a request whose Authorization header is absent or is not exactly
\* "Bearer <token>" is answered 401, whatever else it carries, and the bearer
\* check is the only check that ran.
C1_BadBearerIs401 ==
  \A p \in Procs :
    (pc[p] # "idle" /\ ~GoodBearer(req[p])) =>
      /\ pc[p] = "done"
      /\ resp[p].status = 401
      /\ trace[p] = <<"bearer">>

\* a request with a wrong token that is otherwise acceptable was answered 401
C1_Witness ==
  \E p \in Procs :
    /\ pc[p] = "done" /\ resp[p].status = 401
    /\ req[p].auth = S_Bearer \o S_evil
    /\ AllowListed(req[p])
    /\ req[p].params = Q_Denver

\* C2: a request with a valid bearer whose path lacks the prefix or whose
\* endpoint is not one of the five names is answered 400 in the step it
\* arrives, with no signature verification, no counter change, no nonce
\* record and no upstream call.
C2_BadPathIs400 ==
  [][\A p \in Procs :
       (Arrives(p) /\ GoodBearer(req'[p]) /\ ~AllowListed(req'[p])) =>
         /\ pc'[p] = "done"
         /\ resp'[p].status = 400
         /\ NothingSpent(p)]_vars

\* a signed request for an endpoint outside the list was answered 400 by a
\* gateway that requires signatures
C2_Witness ==
  \E p \in Procs :
    /\ pc[p] = "done" /\ resp[p].status = 400
    /\ GoodBearer(req[p])
    /\ req[p].pathname = Prefix \o S_evil \o S_json
    /\ Truthy(req[p].sig)
    /\ SigningRequired(env)

\* C7: with a valid bearer and an allow-listed endpoint, a q longer than 120
\* characters, or days outside [1, 10] on forecast.json, is answered 400 in
\* the step it arrives, before any signature verification, counter change
\* or upstream call.
C7_BadQueryIs400 ==
  [][\A p \in Procs :
       (/\ Arrives(p) /\ GoodBearer(req'[p]) /\ AllowListed(req'[p])
        /\ \/ Len(FirstQ(req'[p])) > 120
           \/ /\ IsForecast(req'[p]) /\ DaysGiven(req'[p])
              /\ (NumLT(DaysOf(req'[p]), 1) \/ NumGT(DaysOf(req'[p]), 10))) =>
         /\ pc'[p] = "done"
         /\ resp'[p].status = 400
         /\ NothingSpent(p)]_vars

\* forecast.json with days=15 and a valid signature was answered 400 by a
\* gateway that requires signatures
C7_Witness ==
  \E p \in Procs :
    /\ pc[p] = "done" /\ resp[p].status = 400
    /\ GoodBearer(req[p]) /\ IsForecast(req[p])
    /\ req[p].params = Q_Days15
    /\ Truthy(req[p].sig)
    /\ SigningRequired(env)

\* C8: on forecast.json a supplied days that is not an integer is answered
\* 400.
C8_NonIntegerDaysIs400 ==
  \A p \in Procs :
    (/\ pc[p] # "idle" /\ GoodBearer(req[p]) /\ IsForecast(req[p])
     /\ DaysGiven(req[p])
     /\ ~(NumberIsFinite(DaysOf(req[p])) /\ DaysOf(req[p]).n % DaysOf(req[p]).d = 0)) =>
      /\ pc[p] = "done"
      /\ resp[p].status = 400

\* C9: in every forwarded request each caller-supplied pair other than key
\* appears unmodified in the upstream query, and the upstream key is the
\* server's WEATHER_API_KEY and nothing else.
C9_ParamsForwardedVerbatim ==
  \A p \in Procs :
    outbound[p].sent =>
      /\ \A i \in 1..Len(req[p].params) :
           req[p].params[i][1] # S_key =>
             \E j \in 1..Len(outbound[p].params) : outbound[p].params[j] = req[p].params[i]
      /\ \A j \in 1..Len(outbound[p].params) :
           outbound[p].params[j][1] = S_key => outbound[p].params[j][2] = env.WEATHER_API_KEY
      /\ \E j \in 1..Len(outbound[p].params) : outbound[p].params[j][1] = S_key

\* C10: when the upstream has answered, the gateway's status is the
\* upstream's, Cache-Control is no-store, and Content-Type is the upstream's
\* or application/json when the upstream sent none.
C10_RelayedResponse ==
  \A p \in Procs :
    (pc[p] = "done" /\ outbound[p].sent /\ upresp[p].status # 0) =>
      /\ resp[p].status = upresp[p].status
      /\ resp[p].cacheControl = S_nostore
      /\ resp[p].contentType =
           (IF upresp[p].contentType = None THEN S_appjson ELSE upresp[p].contentType)

\* an upstream failure with caching headers and no content type was relayed
C10_Witness ==
  \E p \in Procs :
    /\ pc[p] = "done" /\ outbound[p].sent
    /\ upresp[p].status = 503
    /\ upresp[p].cacheControl # None
    /\ upresp[p].contentType = None
    /\ resp[p].status = 503

\* C6: with the durable-object limiter bound, a call to it that fails or
\* answers with a non-success status ends the request with 429 and nothing
\* is sent upstream.
C6_LimiterFailureIs429 ==
  \A p \in Procs :
    (env.RATE_LIMITER /\ rpc[p] \in {"status", "error"}) =>
      /\ pc[p] = "done"
      /\ resp[p].status = 429
      /\ ~outbound[p].sent

\* the signature headers of r are what a holder of the configured secret
\* sends for r
WellSigned(r) ==
  /\ Truthy(r.ts) /\ Truthy(r.nonce)
  /\ r.sig = Envelope(env.WEATHER_PROXY_SIGNING_SECRET, r.ts, r.nonce, r.clientId,
                      r.pathname \o Search(r.params)).sig
\* |s - ts| for a request whose timestamp is an integer
TsDistance(s, r) ==
  LET d == s - Number(r.ts).n IN IF d < 0 THEN 0 - d ELSE d
IntegerTs(r) == Truthy(r.ts) /\ NumberIsFinite(Number(r.ts)) /\ Number(r.ts).d = 1
CacheKey(r) == OrElse(r.clientId, S_default) \o <<":">> \o r.nonce

\* the step takes p's request as far as signature verification (as it does
\* every request equal to one that was accepted before)
Verified(p) == \E i \in 1..Len(trace'[p]) : trace'[p][i] = "signature"

\* C3: with signatures required, a request whose (clientId, nonce) is in the
\* replay cache and not yet expired when it arrives is answered 401.
C3_ReplayIs401 ==
  [][\A p \in Procs :
       (/\ Arrives(p) /\ SigningRequired(env) /\ Verified(p)
        /\ Truthy(req'[p].nonce)
        /\ CacheKey(req'[p]) \in DOMAIN nonceSeen
        /\ nonceSeen[CacheKey(req'[p])] > NowSec) =>
         /\ pc'[p] = "done"
         /\ resp'[p].status = 401]_vars

\* a well-signed, fresh request was answered 401 in the last second of the
\* life of the record of its nonce
C3_Witness ==
  \E p \in Procs :
    /\ pc[p] = "done" /\ resp[p].status = 401
    /\ WellSigned(req[p]) /\ IntegerTs(req[p])
    /\ TsDistance(NowSec, req[p]) <= 90
    /\ CacheKey(req[p]) \in DOMAIN nonceSeen
    /\ nonceSeen[CacheKey(req[p])] = NowSec + 1

\* C4: with signatures required, a request whose timestamp is more than 90
\* seconds from the gateway's clock, either way, is answered 401 although
\* its signature is correct; at exactly 90 seconds a well-signed request
\* with an unused nonce is not turned away.
C4_StaleIs401 ==
  [][\A p \in Procs :
       (/\ Arrives(p) /\ SigningRequired(env) /\ Verified(p)
        /\ IntegerTs(req'[p])) =>
         /\ TsDistance(NowSec, req'[p]) > 90 =>
              (pc'[p] = "done" /\ resp'[p].status = 401)
         /\ (/\ TsDistance(NowSec, req'[p]) = 90
             /\ WellSigned(req'[p])
             /\ env.ALLOWED_PROXY_CLIENT_ID \in {None, req'[p].clientId}
             /\ CacheKey(req'[p]) \notin DOMAIN nonceSeen) =>
              pc'[p] = "sign"]_vars

\* a well-signed request dated 91 seconds ahead was answered 401
C4_Witness ==
  \E p \in Procs :
    /\ pc[p] = "done" /\ resp[p].status = 401
    /\ WellSigned(req[p]) /\ IntegerTs(req[p])
    /\ Number(req[p].ts).n - NowSec = 91
    /\ CacheKey(req[p]) \notin DOMAIN nonceSeen

\* the calls of the log up to i, replayed: the start of the window call i
\* falls in, and the number of calls in that window up to i
RECURSIVE WindowStartAt(_, _)
WindowStartAt(l, i) ==
  IF i = 1 THEN l[1].t
  ELSE LET w == WindowStartAt(l, i - 1)
       IN  IF l[i].t - w >= 60000 THEN l[i].t ELSE w
RECURSIVE CallsInWindow(_, _)
CallsInWindow(l, i) ==
  IF i = 1 THEN 1
  ELSE IF l[i].t - WindowStartAt(l, i - 1) >= 60000 THEN 1
  ELSE CallsInWindow(l, i - 1) + 1

\* C5: for one key and limit L, a call is limited exactly when it is later
\* than the L-th call of its window; a call 60000 ms or more after the
\* window's start is allowed and starts a window with count 1.
C5_FirstLAllowed ==
  /\ \A i \in 1..Len(log) : log[i].limited <=> CallsInWindow(log, i) > log[i].limit
  /\ log # <<>> =>
       /\ rateBucket[TheKey].windowStart = WindowStartAt(log, Len(log))
       /\ rateBucket[TheKey].count = CallsInWindow(log, Len(log))

\* with limit 10, ten calls of one window were allowed and the 11th refused
C5_Witness ==
  /\ Len(log) >= 11
  /\ log[1].limit = 10
  /\ log[11].t - log[1].t < 60000
  /\ ~log[10].limited
  /\ log[11].limited

(***************************************************************************)
(* The order of the checks.                                                *)
(***************************************************************************)
CheckOrder ==
  <<"bearer", "path", "endpoint", "query", "signature", "ip", "client", "forward">>
\* the steps of a gateway: the signature only when it is required
ChecksOf(e) ==
  IF toLowerCase(OrElse(e.REQUIRE_SIGNED_REQUESTS, <<>>)) = S_true
  THEN CheckOrder
  ELSE SelectSeq(CheckOrder, LAMBDA c : c # "signature")
FailureStatus(c) ==
  CASE c \in {"bearer", "signature"} -> 401
    [] c \in {"path", "endpoint", "query"} -> 400
    [] c \in {"ip", "client"} -> 429
    [] OTHER -> 0
IsPrefix(s, t) == Len(s) <= Len(t) /\ SubSeq(t, 1, Len(s)) = s
LastOf(s) == s[Len(s)]
\* the first of the stateless checks that request r fails, told from r alone
FirstFailed(r) ==
  IF ~GoodBearer(r) THEN "bearer"
  ELSE IF ~startsWith(r.pathname, Prefix) THEN "path"
  ELSE IF ~AllowListed(r) THEN "endpoint"
  ELSE "none"

\* C11: the checks of a request run in the order bearer, path, endpoint,
\* query, signature (when required), IP limit, client limit, forward; the
\* check that fails is the last step run and fixes the status (401, 400,
\* 400, 400, 401, 429, 429); a finished request runs nothing more; the
\* upstream request is made only after every check has passed, and once.
\* (A limiter call that ends without an answer is not a check that failed.)
C11_ChecksInOrder ==
  /\ [](\A p \in Procs :
          pc[p] # "idle" =>
            /\ trace[p] # <<>>
            /\ IsPrefix(trace[p], ChecksOf(env))
            /\ outbound[p].sent <=> trace[p] = ChecksOf(env)
            /\ (pc[p] = "done" /\ ~outbound[p].sent /\ rpc[p] # "error") =>
                 resp[p].status = FailureStatus(LastOf(trace[p]))
            /\ (pc[p] # "done" \/ outbound[p].sent) =>
                 (resp[p] = NoResp \/ LastOf(trace[p]) = "forward")
            /\ FirstFailed(req[p]) # "none" =>
                 (pc[p] = "done" /\ LastOf(trace[p]) = FirstFailed(req[p])))
  /\ [][\A p \in Procs :
          /\ pc[p] = "done" =>
               \/ pc'[p] = "idle"
               \/ /\ trace'[p] = trace[p] /\ outbound'[p] = outbound[p]
                  /\ resp'[p] = resp[p] /\ consulted'[p] = consulted[p]
          /\ (outbound[p].sent /\ pc'[p] # "idle") => outbound'[p] = outbound[p]]_vars

\* a signed request went through all eight steps and was answered by the
\* upstream
C11_Witness ==
  \E p \in Procs :
    /\ pc[p] = "done"
    /\ trace[p] = CheckOrder
    /\ outbound[p].sent
    /\ resp[p].status = 200

(***************************************************************************)
(* The replay cache under concurrent invocations.                          *)
(***************************************************************************)
\* verifySignature has returned true to invocation p
Accepted(p) ==
  \/ pc[p] = "verified"
  \/ \E i \in 1..Len(trace[p]) : trace[p][i] = "ip"

\* C12: while the record of a (clientId, nonce) is in the replay cache, no
\* two invocations have both had a request with that (clientId, nonce)
\* accepted.
C12_AtMostOnceAccepted ==
  \A p, q \in Procs :
    (/\ p # q
     /\ Accepted(p) /\ Accepted(q)
     /\ CacheKey(req[p]) = CacheKey(req[q])
     /\ CacheKey(req[p]) \in DOMAIN nonceSeen
     /\ nonceSeen[CacheKey(req[p])] > NowSec) => FALSE

(***************************************************************************)
(* The two limiter calls of the orchestrator and their limits.             *)
(***************************************************************************)
\* the per-IP and per-client limits of each setting of
\* MAX_REQUESTS_PER_MINUTE, written out by hand
ExpectedLimits(max) ==
  CASE max \in {None, <<>>, <<"0">>, S_abc} -> <<Fin(120, 1), Fin(60, 1)>>
    [] max \in {<<"5">>, <<"-", "5">>, <<"1", "0">>} -> <<Fin(10, 1), Fin(10, 1)>>
    [] max = <<"2", "0">> -> <<Fin(20, 1), Fin(10, 1)>>
    [] max = <<"1", "0", ".", "5">> -> <<Fin(105, 10), Fin(10, 1)>>
    [] max = S_Infinity -> <<Infinity, Infinity>>
IpKeyOf(r) == <<"i", "p", ":">> \o (IF Truthy(r.ip) THEN r.ip ELSE S_unknown)
ClientKeyOf(r) ==
  <<"c", "l", "i", "e", "n", "t", ":">> \o (IF Truthy(r.clientId) THEN r.clientId ELSE S_default)
\* invocation p has passed authentication, policy and signature
PassedChecks(p) == \E i \in 1..Len(trace[p]) : trace[p][i] = "ip"

\* C13: a request that passed the earlier checks consults the limiter under
\* ip:<caller IP> with the full limit and then, if allowed, under
\* client:<client id> with max(10, floor(M/2)); a call that reports the key
\* limited ends the request with 429, and only a request both calls allowed
\* is forwarded.
C13_TwoLimiterCalls ==
  \A p \in Procs :
    /\ ~PassedChecks(p) => consulted[p] = <<>>
    /\ PassedChecks(p) =>
         /\ Len(consulted[p]) \in {1, 2}
         /\ consulted[p][1].key = IpKeyOf(req[p])
         /\ consulted[p][1].limit = ExpectedLimits(env.MAX_REQUESTS_PER_MINUTE)[1]
         /\ Len(consulted[p]) = 2 =>
              /\ consulted[p][1].result = "allowed"
              /\ consulted[p][2].key = ClientKeyOf(req[p])
              /\ consulted[p][2].limit = ExpectedLimits(env.MAX_REQUESTS_PER_MINUTE)[2]
         /\ (consulted[p][1].result = "allowed" /\ pc[p] \in {"done", "upstream"}) =>
              Len(consulted[p]) = 2
         /\ (\E i \in 1..Len(consulted[p]) : consulted[p][i].result = "limited") =>
              (pc[p] = "done" /\ resp[p].status = 429 /\ ~outbound[p].sent)
         /\ outbound[p].sent =>
              (Len(consulted[p]) = 2 /\ consulted[p][2].result = "allowed")

\* a request the IP call allowed was refused by the client call
C13_Witness ==
  \E p \in Procs :
    /\ pc[p] = "done" /\ resp[p].status = 429
    /\ Len(consulted[p]) = 2
    /\ consulted[p][1].result = "allowed"
    /\ consulted[p][2].result = "limited"
    /\ ~env.RATE_LIMITER

\* C19: the per-IP limit passed to the limiter is never below 10, is 120
\* when MAX_REQUESTS_PER_MINUTE is absent, empty, zero or not a number, and
\* is the configured number when that is 10 or more.
C19_IpLimitFloorAndDefault ==
  \A p \in Procs :
    consulted[p] # <<>> =>
      LET limit == consulted[p][1].limit
          max == env.MAX_REQUESTS_PER_MINUTE
      IN  /\ limit.k \in {"fin", "inf"}
          /\ limit.k = "fin" => limit.n >= 10 * limit.d
          /\ max \in {None, <<>>, <<"0">>, S_abc} => limit = Fin(120, 1)
          /\ max = <<"1", "0">> => limit = Fin(10, 1)
          /\ max = <<"2", "0">> => limit = Fin(20, 1)
          /\ max = <<"1", "0", ".", "5">> => limit = Fin(105, 10)
          /\ max = S_Infinity => limit = Infinity

\* a gateway configured with a limit of 5 consulted the limiter with 10
C19_Witness ==
  \E p \in Procs :
    /\ consulted[p] # <<>>
    /\ env.MAX_REQUESTS_PER_MINUTE = <<"5">>
    /\ consulted[p][1].limit = Fin(10, 1)

(***************************************************************************)
(* Signatures required and no secret configured.                           *)
(***************************************************************************)
SignedMode == toLowerCase(OrElse(env.REQUIRE_SIGNED_REQUESTS, <<>>)) = S_true
NoSecret == env.WEATHER_PROXY_SIGNING_SECRET \in {None, <<>>}

\* C14: with signatures required and no secret configured, no request is
\* forwarded or counted, every request is refused in the step it arrives,
\* and a request that is otherwise in order is answered 401 whatever
\* signature headers it carries.
C14_NoSecretFailsClosed ==
  \A p \in Procs :
    (SignedMode /\ NoSecret /\ pc[p] # "idle") =>
      /\ pc[p] = "done"
      /\ ~outbound[p].sent
      /\ consulted[p] = <<>>
      /\ resp[p].status \in {400, 401}
      /\ (GoodBearer(req[p]) /\ AllowListed(req[p]) /\ req[p].params = Q_Denver) =>
           resp[p].status = 401

\* a request in order, signed by a client that holds a secret, was answered
\* 401 by a gateway that has none
C14_Witness ==
  \E p \in Procs :
    /\ SignedMode /\ NoSecret
    /\ pc[p] = "done" /\ resp[p].status = 401
    /\ GoodBearer(req[p]) /\ AllowListed(req[p]) /\ req[p].params = Q_Denver
    /\ Truthy(req[p].sig) /\ Truthy(req[p].ts) /\ Truthy(req[p].nonce)

(***************************************************************************)
(* The errors of HttpClient.get.                                           *)
(***************************************************************************)
Contains(str, sub) ==
  \E i \in 1..(Len(str) - Len(sub) + 1) : SubSeq(str, i, i + Len(sub) - 1) = sub
RedactedNames == {<<"k", "e", "y">>, <<"a", "p", "i", "_", "k", "e", "y">>, <<"a", "p", "i", "k", "e", "y">>, <<"t", "o", "k", "e", "n">>,
                  <<"a", "c", "c", "e", "s", "s", "_", "t", "o", "k", "e", "n">>, <<"c", "l", "i", "e", "n", "t", "_", "s", "e", "c", "r", "e", "t">>}
\* the marker [REDACTED] as the query of a URL spells it
MarkerInUrl == <<"%", "5", "B", "R", "E", "D", "A", "C", "T", "E", "D", "%", "5", "D">>
\* two URLs that differ at most in the values of the secret parameters
SameButSecrets(u, v) ==
  /\ u.base = v.base
  /\ Len(u.params) = Len(v.params)
  /\ \A i \in 1..Len(u.params) :
       /\ u.params[i][1] = v.params[i][1]
       /\ u.params[i][1] \notin RedactedNames => u.params[i][2] = v.params[i][2]
\* get has thrown the error of line 24 or of line 29
ThrewOwnError ==
  /\ http.pc = "threw"
  /\ http.message \notin {S_fetchfailed, S_badjson}

\* C16: in an error get throws for a non-success status or a timeout, no
\* value of a parameter named key, api_key, apikey, token, access_token or
\* client_secret appears, each such parameter carries the marker
\* [REDACTED] (as the URL in the message spells it), and the message is the
\* one any URL that differs only in those values would give.
C16_ErrorsAreRedacted ==
  ThrewOwnError =>
    /\ \A i \in 1..Len(http.url.params) :
         http.url.params[i][1] \in RedactedNames =>
           /\ ~Contains(http.message, http.url.params[i][2])
           /\ Contains(http.message, http.url.params[i][1] \o <<"=">> \o MarkerInUrl)
    /\ \A v \in UrlMenu :
         (v # InvalidUrl /\ http.url # InvalidUrl /\ SameButSecrets(http.url, v)) =>
           http.message = (IF http.status = 0 \/ (http.status >= 200 /\ http.status <= 299)
                           THEN TimedOutMessage(v, http.timeoutMs)
                           ELSE FailedMessage(v, http.status))

\* a call with a key and a token in its URL failed with status 404
C16_Witness ==
  /\ ThrewOwnError
  /\ http.status = 404
  /\ \E i, j \in 1..Len(http.url.params) :
       /\ http.url.params[i] = <<<<"k", "e", "y">>, SecretA>>
       /\ http.url.params[j] = <<<<"t", "o", "k", "e", "n">>, SecretB>>

(***************************************************************************)
(* Timeouts of the outbound calls.                                         *)
(***************************************************************************)
\* C15: every outbound call ends although the remote side never answers:
\* get ends by returning or throwing, an invocation of the gateway that
\* waits for the durable object or for the upstream ends with a response.
C15_EveryCallEnds ==
  /\ (http.pc \in {"pending", "body"}) ~> (http.pc \in {"returned", "threw"})
  /\ \A p \in Procs :
       (pc[p] \in {"ipCall", "clientCall", "upstream"}) ~> (pc[p] = "done")

\* the part of it that is about get alone
HttpGetEnds ==
  (http.pc \in {"pending", "body"}) ~> (http.pc \in {"returned", "threw"})

(***************************************************************************)
(* The state of the OAuth callback.                                        *)
(***************************************************************************)
\* the state of the callback in progress carries a signature that verifies
\* under the server's key, and was issued at most 600 seconds before the
\* callback
StateInOrder ==
  /\ oauth.state.t = "signed"
  /\ oauth.state.sigB64 = <<"b64url", <<"HMAC-SHA-256", CookieKey, oauth.state.payloadB64>>>>
  /\ oauth.at - oauth.state.payloadB64.iat <= 600

\* C17: a callback whose state has no valid signature or is older than 600
\* seconds is answered 400, and for it no code is exchanged and no
\* authorization completed.
C17_CallbackRejectsBadState ==
  (oauth.pc # "idle" /\ ~StateInOrder) =>
    /\ oauth.pc = "done"
    /\ oauth.status = 400
    /\ ~oauth.exchanged
    /\ ~oauth.completed

\* the same of the version that signs the state
SignedCallbackRejectsBadState ==
  (oauth.pc # "idle" /\ oauth.handler = "signed" /\ ~StateInOrder) =>
    /\ oauth.pc = "done"
    /\ oauth.status = 400
    /\ ~oauth.exchanged
    /\ ~oauth.completed

\* the version that signs the state took a state exactly 600 seconds old
SignedCallbackAcceptsAtMaxAge ==
  ~(/\ oauth.handler = "signed" /\ oauth.completed
    /\ oauth.at - oauth.state.payloadB64.iat = 600)

(***************************************************************************)
(* The service's signed request at the gateway.                            *)
(***************************************************************************)
\* the gateway has answered the request the service built, while the
\* request's timestamp was within 90 seconds of the gateway's clock
ServiceRequestAnswered ==
  /\ pc["p1"] = "done"
  /\ wire # NoReq
  /\ req["p1"] = wire
  /\ ~Stale(sigNow["p1"], Number(wire.ts))

\* C18: a request built by weatherGet with the gateway's signing secret and
\* read by the gateway within 90 seconds of its timestamp passes
\* verifySignature: the gateway does not answer it 401.
C18_ServiceRequestVerifies ==
  ServiceRequestAnswered => resp["p1"].status # 401

\* the same request passes verifySignature of the earlier gateway
ServiceRequestVerifiesV1 ==
  (wire # NoReq /\ ~Stale(NowSec, Number(wire.ts))) => verifySignatureV1(env, wire, NowSec)

\* a request of the service reached the earlier gateway's freshness window
ServiceRequestFresh ==
  ~(wire # NoReq /\ ~Stale(NowSec, Number(wire.ts)) /\ now > 0)

(***************************************************************************)
(* The two limiters compared.                                              *)
(***************************************************************************)
\* C20: on every check of a sequence, the durable object answers allowed
\* exactly when the in-memory limiter does not report the key as limited.
C20_BackendsAgree ==
  \A i \in 1..Len(log) : log[i].allowed = ~log[i].limited

\* the same for the checks whose limit is a finite number
BackendsAgreeOnFiniteLimits ==
  \A i \in 1..Len(log) : NumberIsFinite(log[i].limit) => log[i].allowed = ~log[i].limited

\* a check with a finite limit was refused by both, and a later check found
\* the counter deleted by the alarm
RefusedAndAfterAlarm ==
  ~(\E i, j \in 1..Len(log) :
      /\ i < j
      /\ NumberIsFinite(log[i].limit) /\ log[i].limited /\ ~log[i].allowed
      /\ log[j].fresh)

(***************************************************************************)
(* Concurrent requests to one durable object.                              *)
(***************************************************************************)
Min(a, b) == IF a < b THEN a ELSE b

\* the calls of the window that call n of the log falls in, up to n
LastWindow(n) == {i \in 1..n : i > n - CallsInWindow(log, n)}

\* C21: the requests to the object of one key take effect one at a time, in
\* the order of the log: request i of its window is counted as the i-th and
\* is allowed exactly when i is at most its limit, the stored count is the
\* number of requests of the window, and of k requests of a window under one
\* limit L exactly min(k, L) are allowed.
C21_RequestsSerialized ==
  /\ \A i \in 1..Len(log) :
       /\ log[i].count = CallsInWindow(log, i)
       /\ log[i].allowed <=> CallsInWindow(log, i) <= log[i].limit.n
  /\ (log # <<>> /\ MapHas(doCounter, TheKey)) =>
       /\ doCounter[TheKey].count = CallsInWindow(log, Len(log))
       /\ doCounter[TheKey].windowStart = WindowStartAt(log, Len(log))
  /\ \A n \in 1..Len(log) :
       (\A i \in LastWindow(n) : log[i].limit = log[n].limit) =>
         Cardinality({i \in LastWindow(n) : log[i].allowed})
           = Min(CallsInWindow(log, n), log[n].limit.n)

\* two requests under limit 1 overlapped in one window: the first was
\* allowed, the second counted as the second and refused
C21_Witness ==
  /\ Len(log) >= 2
  /\ log[1].overlapped
  /\ log[1].limit = Int2Num(1) /\ log[2].limit = Int2Num(1)
  /\ log[1].allowed
  /\ log[2].count = 2 /\ ~log[2].allowed
  /\ MapHas(doCounter, TheKey) /\ doCounter[TheKey].count = 2

(***************************************************************************)
(* The cleanup timer of the durable object.                                *)
(***************************************************************************)
\* the counter of the key is deleted in this step
CounterDeleted == MapHas(doCounter, TheKey) /\ ~MapHas(doCounter', TheKey)

\* the timer stands 120000 ms after the last request counted
TimerFollowsLastCheck ==
  (log # <<>> /\ MapHas(doCounter, TheKey)) =>
    /\ MapHas(doAlarm, TheKey)
    /\ doAlarm[TheKey] = log[Len(log)].t + 120000

\* C22: every request sets the one timer of the object to 120000 ms after
\* its own time, the counter is deleted only when no request was counted in
\* the 120000 ms before, and a stored counter is eventually deleted.
C22_TimerRearmedAndCounterDeleted ==
  /\ []TimerFollowsLastCheck
  /\ [][CounterDeleted => \A i \in 1..Len(log) : now - log[i].t >= 120000]_vars
  /\ MapHas(doCounter, TheKey) ~> ~MapHas(doCounter, TheKey)

\* a second request has moved the timer, the first timer's time has passed
\* and the counter is still stored
C22_Witness ==
  /\ Len(log) >= 2
  /\ log[2].t > log[1].t
  /\ now >= log[1].t + 120000
  /\ now < log[2].t + 120000
  /\ MapHas(doCounter, TheKey)

\* the counter was deleted after two requests
DeletedAfterRearm ==
  ~(Len(log) >= 2 /\ log[2].t > log[1].t /\ ~MapHas(doCounter, TheKey))

(***************************************************************************)
(* The contents of the replay cache.                                       *)
(***************************************************************************)
\* the step puts a record under key k, or changes the one there
Inserted(k) ==
  /\ k \in DOMAIN nonceSeen'
  /\ k \notin DOMAIN nonceSeen \/ nonceSeen'[k] # nonceSeen[k]

\* verifySignature returns true to invocation p in this step
ReturnsTrue(p) == pc[p] = "sign" /\ pc'[p] = "verified"
\* verifySignature returns false to invocation p in this step
ReturnsFalse(p) ==
  /\ pc[p] \in {"idle", "sign"}
  /\ Verified(p)
  /\ pc'[p] = "done" /\ resp'[p].status = 401

\* the request carries the three headers and a timestamp within 90
\* seconds of second s
PassesFreshness(r, s) ==
  /\ Truthy(r.ts) /\ Truthy(r.nonce) /\ Truthy(r.sig)
  /\ IntegerTs(r)
  /\ TsDistance(s, r) <= 90

\* C23: a record enters the replay cache only in a step where
\* verifySignature returns true for its (clientId, nonce), with expiry the
\* second that call read plus 120; a call that returns false inserts
\* nothing; after a call has passed the freshness check no record with an
\* expiry at or before the current second is left.
C23_CacheHoldsAcceptedNonces ==
  [][/\ \A k \in DOMAIN nonceSeen' :
          Inserted(k) =>
            \E p \in Procs :
              /\ ReturnsTrue(p)
              /\ CacheKey(req[p]) = k
              /\ nonceSeen'[k] = sigNow[p] + 120
     /\ \A p \in Procs :
          ReturnsFalse(p) => \A k \in DOMAIN nonceSeen' : ~Inserted(k)
     /\ \A p \in Procs :
          (Arrives(p) /\ Verified(p) /\ PassesFreshness(req'[p], NowSec)) =>
            \A k \in DOMAIN nonceSeen' : nonceSeen'[k] > NowSec]_vars

\* a request accepted at second 120 or later has its record in the cache,
\* and the cache holds no record that has expired
C23_Witness ==
  \E p \in Procs :
    /\ Accepted(p)
    /\ sigNow[p] >= 120
    /\ CacheKey(req[p]) \in DOMAIN nonceSeen
    /\ nonceSeen[CacheKey(req[p])] = sigNow[p] + 120
    /\ \A k \in DOMAIN nonceSeen : nonceSeen[k] > NowSec

\* a request with a wrong signature passed the freshness check and was
\* refused while the cache held the record of another request
RefusedBesideRecord ==
  ~(\E p \in Procs :
      /\ pc[p] = "done" /\ resp[p].status = 401
      /\ PassesFreshness(req[p], sigNow[p])
      /\ ~WellSigned(req[p])
      /\ nonceSeen # EmptyMap
      /\ CacheKey(req[p]) \notin DOMAIN nonceSeen)

(***************************************************************************)
(* The query that reaches the upstream.                                    *)
(***************************************************************************)
\* the value of a parameter in the upstream request, <<>> when absent
OutboundValue(p, name) == OrElse(ParamsGet(outbound[p].params, name), <<>>)

\* C24: in every forwarded request the q sent upstream has at most 120
\* characters and, for forecast.json, a days sent upstream is a number
\* within [1, 10], also when the caller repeats q or days.
C24_ForwardedQueryWithinPolicy ==
  \A p \in Procs :
    outbound[p].sent =>
      /\ Len(OutboundValue(p, S_q)) <= 120
      /\ (outbound[p].endpoint = S_forecast /\ OutboundValue(p, S_days) # <<>>) =>
           LET days == Number(OutboundValue(p, S_days))
           IN  /\ NumberIsFinite(days)
               /\ days.n >= 1 * days.d
               /\ days.n <= 10 * days.d

\* the same for requests that name q and days at most once
ForwardedQueryWithinPolicyUnrepeated ==
  \A p \in Procs :
    (outbound[p].sent /\ Len(req[p].params) = Len(outbound[p].params) - 1) =>
      /\ Len(OutboundValue(p, S_q)) <= 120
      /\ (outbound[p].endpoint = S_forecast /\ OutboundValue(p, S_days) # <<>>) =>
           LET days == Number(OutboundValue(p, S_days))
           IN  /\ NumberIsFinite(days)
               /\ days.n >= 1 * days.d
               /\ days.n <= 10 * days.d

(***************************************************************************)
(* A request replayed after it was accepted.                               *)
(***************************************************************************)
\* C25: with signatures required, a request that has been accepted is not
\* accepted again when the identical request is sent later, whatever its
\* timestamp within the freshness window.
C25_NeverAcceptedTwice ==
  ~(/\ Accepted("p1") /\ Accepted("p2")
    /\ req["p2"] = req["p1"])

\* the same while the record of the first acceptance is in the cache
NotAcceptedTwiceWhileRecorded ==
  ~(/\ Accepted("p1") /\ Accepted("p2")
    /\ req["p2"] = req["p1"]
    /\ sigNow["p2"] < sigNow["p1"] + 120)

\* the same for the requests dated less than 30 seconds ahead of the clock
\* that accepted them
NotAcceptedTwiceUnlessAhead ==
  ~(/\ Accepted("p1") /\ Accepted("p2")
    /\ req["p2"] = req["p1"]
    /\ Number(req["p1"].ts).n < sigNow["p1"] + 30)

(***************************************************************************)
(* One signature under two (clientId, nonce) pairs.                        *)
(***************************************************************************)
\* the two invocations hold requests with one timestamp, path and
\* signature, and different (clientId, nonce)
SameSignatureOtherLabels ==
  /\ req["p2"].sig = req["p1"].sig
  /\ req["p2"].ts = req["p1"].ts
  /\ PathAndQuery(req["p2"]) = PathAndQuery(req["p1"])
  /\ <<req["p2"].clientId, req["p2"].nonce>> # <<req["p1"].clientId, req["p1"].nonce>>

\* C26: with signatures required and no allow-listed client id, a signature
\* that was accepted is not accepted again under another (clientId, nonce),
\* also when these contain '.' or ':'.
C26_SignatureBoundToLabels ==
  ~(Accepted("p1") /\ Accepted("p2") /\ SameSignatureOtherLabels)

\* the same for client ids and nonces without '.'
SignatureBoundToDotlessLabels ==
  ~(/\ Accepted("p1") /\ Accepted("p2") /\ SameSignatureOtherLabels
    /\ \A r \in {req["p1"], req["p2"]} :
         \A i \in 1..Len(r.nonce \o ClientIdOf(r)) : (r.nonce \o ClientIdOf(r))[i] # ".")

(***************************************************************************)
(* The calls the in-memory limiter allows in an interval.                  *)
(***************************************************************************)
\* the calls i..j of the log that were allowed
AllowedBetween(i, j) == {k \in i..j : ~log[k].limited}

\* C27: for one key and limit L, of the calls made within any 60000 ms at
\* most 2 * L are allowed.
C27_AtMostTwiceTheLimit ==
  \A i, j \in 1..Len(log) :
    (i <= j /\ log[j].t - log[i].t <= 60000) =>
      Cardinality(AllowedBetween(i, j)) <= 2 * log[1].limit

\* under limit 2, four calls within 60000 ms were allowed and a fifth call
\* among them was refused
C27_Witness ==
  \E i, j \in 1..Len(log) :
    /\ i <= j /\ log[j].t - log[i].t <= 60000
    /\ log[1].limit = 2
    /\ Cardinality(AllowedBetween(i, j)) = 4
    /\ \E k \in i..j : log[k].limited

(***************************************************************************)
(* What a request changes in the rate counters.                            *)
(***************************************************************************)
\* the keys whose in-memory counter the step changes
Changed ==
  {k \in DOMAIN rateBucket \cup DOMAIN rateBucket' :
     \/ k \notin DOMAIN rateBucket
     \/ k \notin DOMAIN rateBucket'
     \/ rateBucket'[k] # rateBucket[k]}

\* the step counts one more call under key k
Bumped(k) ==
  /\ k \in DOMAIN rateBucket'
  /\ rateBucket'[k].count =
       IF k \in DOMAIN rateBucket /\ now - rateBucket[k].windowStart < 60000
       THEN rateBucket[k].count + 1
       ELSE 1

\* the step makes invocation p's IP call, its client call
IpCallStep(p) == Len(consulted[p]) = 0 /\ Len(consulted'[p]) = 1
ClientCallStep(p) == Len(consulted[p]) = 1 /\ Len(consulted'[p]) = 2

\* the checks before the limiter have passed for p's request after the step
ChecksPassed(p) ==
  /\ GoodBearer(req'[p])
  /\ PathOk(req'[p]) /\ Endpoint(req'[p]) \in FiveEndpoints
  /\ Len(FirstQ(req'[p])) <= 120
  /\ (IsForecast(req'[p]) /\ DaysGiven(req'[p])) =>
       /\ NumberIsFinite(DaysOf(req'[p]))
       /\ DaysOf(req'[p]).n >= DaysOf(req'[p]).d
       /\ DaysOf(req'[p]).n <= 10 * DaysOf(req'[p]).d
  /\ SigningRequired(env) => (WellSigned(req'[p]) /\ pc[p] = "verified")

\* C28: a step changes a rate counter only as the IP call or the client
\* call of a request that passed the checks before; such a call counts one
\* under its own key and changes no other counter; the client call is made
\* exactly when the IP call allowed the request; a request answered 400 or
\* 401 has made no call.
C28_CountersChangeOnlyForCheckedRequests ==
  /\ [][\A p \in Procs :
          /\ IpCallStep(p) =>
               /\ ChecksPassed(p)
               /\ Changed = {IpKeyOf(req'[p])}
               /\ Bumped(IpKeyOf(req'[p]))
          /\ ClientCallStep(p) =>
               /\ consulted[p][1].result = "allowed"
               /\ Changed = {ClientKeyOf(req'[p])}
               /\ Bumped(ClientKeyOf(req'[p]))
          /\ (pc[p] # "done" /\ pc'[p] = "done" /\ resp'[p].status \in {400, 401}) =>
               (Changed = {} /\ consulted'[p] = <<>>)]_vars
  /\ [][(\A p \in Procs : ~IpCallStep(p) /\ ~ClientCallStep(p)) => Changed = {}]_vars
  /\ [](\A p \in Procs :
          (/\ Len(consulted[p]) >= 1
           /\ consulted[p][1].result = "allowed"
           /\ pc[p] \in {"done", "upstream", "clientOk"}) => Len(consulted[p]) = 2)
  /\ [](\A p \in Procs : Len(consulted[p]) <= 2)

\* a request was refused on the IP limit while the counter of its client
\* stands where the requests before left it
C28_Witness ==
  \E p \in Procs :
    /\ pc[p] = "done" /\ resp[p].status = 429
    /\ Len(consulted[p]) = 1 /\ consulted[p][1].result = "limited"
    /\ rateBucket[IpKeyOf(req[p])].count = 11
    /\ rateBucket[ClientKeyOf(req[p])].count = 10

\* a request with a wrong signature was answered 401 after other requests
\* had been counted
RefusedAfterCounting ==
  ~(\E p \in Procs :
      /\ pc[p] = "done" /\ resp[p].status = 401
      /\ GoodBearer(req[p])
      /\ rateBucket # EmptyMap)

\* invocation p answers 429 in this step
Refuses429(p) == pc[p] # "done" /\ pc'[p] = "done" /\ resp'[p].status = 429
\* the request invocation first answered 429 arrives again at p in this
\* step, while its record in the replay cache has not expired
ResentInLifetime(p, first) ==
  /\ pc[p] = "idle" /\ pc'[p] # "idle"
  /\ pc[first] = "done" /\ resp[first].status = 429
  /\ req'[p] = req[first]
  /\ NowSec < sigNow[first] + NonceTtlSec

\* C29: with signatures required, a well-signed request that a rate limit
\* answers 429 has its (clientId, nonce) in the replay cache at that moment,
\* with expiry 120 seconds after the now its verification read; the same
\* request sent again before that expiry is answered 401 at once, so it is
\* neither rate limited nor forwarded.
C29_RefusedRequestIsRecorded ==
  [][/\ \A p \in Procs :
          (Refuses429(p) /\ SigningRequired(env) /\ WellSigned(req'[p])) =>
            /\ CacheKey(req'[p]) \in DOMAIN nonceSeen'
            /\ nonceSeen'[CacheKey(req'[p])] = sigNow'[p] + NonceTtlSec
     /\ \A p, first \in Procs :
          (ResentInLifetime(p, first) /\ SigningRequired(env) /\ WellSigned(req[first])) =>
            /\ pc'[p] = "done"
            /\ resp'[p].status = 401
            /\ outbound'[p] = NoOut
            /\ rateBucket' = rateBucket
     ]_vars

\* a refused request was sent again a minute later, one second before its
\* record expires, and was answered 401
C29_Witness ==
  /\ pc["p1"] = "done" /\ resp["p1"].status = 429
  /\ SigningRequired(env) /\ WellSigned(req["p1"])
  /\ req["p2"] = req["p1"]
  /\ NowSec > sigNow["p1"] /\ NowSec < sigNow["p1"] + NonceTtlSec
  /\ sigNow["p2"] = NowSec
  /\ CacheKey(req["p1"]) \in DOMAIN nonceSeen
  /\ pc["p2"] = "done" /\ resp["p2"].status = 401

\* a request refused by the in-memory limiter of its IP address
RefusedByIpLimit ==
  /\ ~env.RATE_LIMITER
  /\ pc["p1"] = "done" /\ resp["p1"].status = 429
  /\ WellSigned(req["p1"])
\* a request refused by the durable limiter of its client
RefusedByClientLimit ==
  /\ pc["p1"] = "done" /\ resp["p1"].status = 429
  /\ WellSigned(req["p1"])
  /\ Len(trace["p1"]) > 0 /\ trace["p1"][Len(trace["p1"])] = "client"

====
